---- MODULE Spec2Model ----
(***************************************************************************)
(* A model of the aclock repository: the SCD30 sensor driver (checksum      *)
(* engine, I2C framer, command table, device handle).                      *)
(*                                                                         *)
(* Bytes are integers 0..255, words 0..65535, byte buffers are sequences.   *)
(* A Rust Result is a record with a "kind" field: "Ok" or the error variant. *)
(***************************************************************************)
EXTENDS Integers, Sequences, FiniteSets, TLC

VARIABLES
    crc,                 \* SH30CRC.0: the sum register of the CRC computer
    crcIn,               \* the argument the checksum operations are applied to
    crcOut,              \* what SH30CRC::add returned last (<<>> before)
    crcRes,              \* what SH30CRC::check returned last
    crcPc,               \* "idle", "start", "added", "checked"
    handle,              \* the caller's SCD30 handle: "none", "live", "consumed"
    continuous_enabled,  \* SCD30.continuous_enabled of the latest SCD30 value
    call,                \* the driver call made last, with the bus's behaviour in it
    result,              \* what that call returned
    traffic,             \* the bus transactions that call issued, in order
    commCall,            \* the call made on a bare I2cComm / Command, with its inputs
    commOut,             \* what that call returned, wrote to the bus and to its buffer
    inst,                \* SH30CRC.0 of an instance that is used several times
    instOps,             \* the operations applied to it, in order, with their results
    atmoCall,            \* the AtmosphereSampler::sample call made last on an SCD30
    atmoOut,             \* the AtmosphereSample it returned, and what the driver did
    slot,                \* an Option<LastMeasurement> of the renderer
    updates,             \* the LastMeasurement::update calls made on it, in order
    tracer,              \* a PerimiterTracer: its bounds and next point
    yielded,             \* the points its next() has returned, in order
    webSettings,         \* RendererSettings.latitude / .longitude of a WebRenderer
    webCall,             \* the WebRenderer::update call made last
    cancelled,           \* ContextInner.cancelled: the flag inside the mutex
    lock,                \* the thread that holds that mutex (0: nobody)
    blocked,             \* the threads parked on ContextInner.cv
    thPc,                \* per thread: where it is in its call on the Context
    thOp,                \* per thread: the method it is calling
    thRet,               \* per thread: what its last finished call returned
    thExpired            \* per thread: its wait_timeout's duration has elapsed

crcVars == <<crc, crcIn, crcOut, crcRes, crcPc>>
drvVars == <<handle, continuous_enabled, call, result, traffic>>
commVars == <<commCall, commOut>>
histVars == <<inst, instOps>>
atmoVars == <<atmoCall, atmoOut>>
lmVars == <<slot, updates>>
ptVars == <<tracer, yielded>>
webVars == <<webSettings, webCall>>
ctxVars == <<cancelled, lock, blocked, thPc, thOp, thRet, thExpired>>
otherVars == <<histVars, atmoVars, lmVars, ptVars, webVars, ctxVars>>
vars == <<crcVars, drvVars, commVars, otherVars>>

----------------------------------------------------------------------------
(* Integer helpers: fixed-width bytes and words.                           *)

ByteMax == 255
WordMax == 65535

Bytes == 0..ByteMax
Words == 0..WordMax

Bit(x, i) == (x \div (2 ^ i)) % 2

\* Bitwise exclusive or of two bytes.
Xor8(a, b) ==
      ((Bit(a, 0) + Bit(b, 0)) % 2)
    + ((Bit(a, 1) + Bit(b, 1)) % 2) * 2
    + ((Bit(a, 2) + Bit(b, 2)) % 2) * 4
    + ((Bit(a, 3) + Bit(b, 3)) % 2) * 8
    + ((Bit(a, 4) + Bit(b, 4)) % 2) * 16
    + ((Bit(a, 5) + Bit(b, 5)) % 2) * 32
    + ((Bit(a, 6) + Bit(b, 6)) % 2) * 64
    + ((Bit(a, 7) + Bit(b, 7)) % 2) * 128

\* u16::to_be_bytes and u16::from_be_bytes.
to_be_bytes(word) == <<word \div 256, word % 256>>
from_be_bytes(b) == b[1] * 256 + b[2]

----------------------------------------------------------------------------
(* The checksum engine: CRCu8::create_crc(0x31, 8, 0xFF, 0, false).       *)

CrcPoly == 49           \* 0x31
CrcBits == 8
CrcInitial == 255       \* 0xFF
CrcFinalXor == 0

\* One bit of the unreflected CRC: shift left, and fold the polynomial in when
\* the bit shifted out is set.
CrcShift(sum) ==
    IF Bit(sum, CrcBits - 1) = 1
    THEN Xor8((sum * 2) % (2 ^ CrcBits), CrcPoly)
    ELSE (sum * 2) % (2 ^ CrcBits)

RECURSIVE CrcShifts(_, _)
CrcShifts(sum, n) == IF n = 0 THEN sum ELSE CrcShifts(CrcShift(sum), n - 1)

\* The lookup table of the CRC computer: eight shifts of every byte.
CrcTable == [b \in Bytes |-> CrcShifts(b, CrcBits)]

\* CRCu8::digest of one byte, then of a buffer.
CrcDigestByte(sum, b) == CrcTable[Xor8(sum, b)]

RECURSIVE CrcDigest(_, _)
CrcDigest(sum, bytes) ==
    IF bytes = <<>> THEN sum
    ELSE CrcDigest(CrcDigestByte(sum, Head(bytes)), Tail(bytes))

\* CRCu8::reset and CRCu8::get_crc.
CrcReset(sum) == CrcInitial
CrcGet(sum) == Xor8(sum, CrcFinalXor)

\* SH30CRC::new: the register of a new CRC computer.
SH30CRC_new == CrcInitial

\* Variant of SH30CRC::add with the word in little-endian order.
SH30CRC_add_le(self, word) ==
    LET word_le == <<word % 256, word \div 256>>
        sum == CrcDigest(CrcReset(self), word_le)
    IN  [self |-> sum, out |-> <<word_le[1], word_le[2], CrcGet(sum)>>]

\* Variant of SH30CRC::add without crc.reset(): the sum continues from the
\* previous operation of the computer.
SH30CRC_add_no_reset(self, word) ==
    LET word_be == to_be_bytes(word)
        sum == CrcDigest(self, word_be)
    IN  [self |-> sum, out |-> <<word_be[1], word_be[2], CrcGet(sum)>>]

\* SH30CRC::add(&mut self, word): the new register and the bytes in bus order.
SH30CRC_add(self, word) ==
    LET word_be == to_be_bytes(word)
        sum == CrcDigest(CrcReset(self), word_be)
    IN  [self |-> sum, out |-> <<word_be[1], word_be[2], CrcGet(sum)>>]

\* Variant of SH30CRC::check without crc.reset(): the sum continues from the
\* previous operation of the computer.
SH30CRC_check_no_reset(self, raw) ==
    LET sum == CrcDigest(self, SubSeq(raw, 1, 2))
        computed == CrcGet(sum)
        received == raw[3]
    IN  [self |-> sum,
         res |-> IF computed # received
                 THEN [kind |-> "InvalidCRC", computed |-> computed,
                       received |-> received]
                 ELSE [kind |-> "Ok",
                       word |-> from_be_bytes(<<raw[1], raw[2]>>)]]

\* Variant of SH30CRC::check with the two fields of InvalidCRC exchanged.
SH30CRC_check_swapped(self, raw) ==
    LET sum == CrcDigest(CrcReset(self), SubSeq(raw, 1, 2))
        computed == CrcGet(sum)
        received == raw[3]
    IN  [self |-> sum,
         res |-> IF computed # received
                 THEN [kind |-> "InvalidCRC", computed |-> received,
                       received |-> computed]
                 ELSE [kind |-> "Ok",
                       word |-> from_be_bytes(<<raw[1], raw[2]>>)]]

\* SH30CRC::check(&mut self, raw): the new register and Ok(word) or
\* Err(InvalidCRC {computed, received}).
SH30CRC_check(self, raw) ==
    LET sum == CrcDigest(CrcReset(self), SubSeq(raw, 1, 2))
        computed == CrcGet(sum)
        received == raw[3]
    IN  [self |-> sum,
         res |-> IF computed # received
                 THEN [kind |-> "InvalidCRC", computed |-> computed,
                       received |-> received]
                 ELSE [kind |-> "Ok",
                       word |-> from_be_bytes(<<raw[1], raw[2]>>)]]

----------------------------------------------------------------------------
(* The bus: embedded_hal's I2c, as a mock that records every transaction.  *)
(* Its behaviour during one driver call is an input of the call: the       *)
(* transaction that fails (0: none), the error it fails with, and the      *)
(* bytes the device answers the reads with, one reply per read.            *)

NewBus(failAt, err, replies) ==
    [log |-> <<>>, failAt |-> failAt, err |-> err, replies |-> replies]

\* I2c::write(address, bytes).
BusWrite(bus, address, bytes) ==
    LET ok == Len(bus.log) + 1 # bus.failAt
        entry == [op |-> "write", address |-> address, len |-> Len(bytes),
                  bytes |-> bytes, ok |-> ok]
    IN  [bus |-> [bus EXCEPT !.log = Append(@, entry)],
         res |-> IF ok THEN [kind |-> "Ok"] ELSE [kind |-> "Err", err |-> bus.err]]

\* I2c::read(address, buffer) into a buffer of n bytes: the device's next reply,
\* padded with 0xFF (the idle bus) when it is shorter than the buffer.
BusRead(bus, address, n) ==
    LET ok == Len(bus.log) + 1 # bus.failAt
        reply == IF bus.replies = <<>> THEN <<>> ELSE Head(bus.replies)
        bytes == [i \in 1..n |-> IF i <= Len(reply) THEN reply[i] ELSE ByteMax]
        entry == [op |-> "read", address |-> address, len |-> n,
                  bytes |-> IF ok THEN bytes ELSE <<>>, ok |-> ok]
    IN  [bus |-> [bus EXCEPT !.log = Append(@, entry),
                             !.replies = IF ok /\ @ # <<>> THEN Tail(@) ELSE @],
         res |-> IF ok THEN [kind |-> "Ok"] ELSE [kind |-> "Err", err |-> bus.err],
         bytes |-> bytes]

----------------------------------------------------------------------------
(* The transport framer: I2cComm.                                          *)

ADDRESS == 97           \* 0x61
WORD_SIZE == 2
WORD_WITH_CRC_SIZE == 3
MAX_WORDS == 6
BUFFER_SIZE == MAX_WORDS * WORD_WITH_CRC_SIZE

Some(v) == [some |-> TRUE, v |-> v]
None == [some |-> FALSE, v |-> 0]

Zeros(n) == [i \in 1..n |-> 0]

\* Variant of I2cComm::send that maps a failed write to Error::I2cRead.
I2cComm_send_as_read(bus, command, data) ==
    LET buffer0 == to_be_bytes(command) \o Zeros(3)
        write_buf == IF data.some
                     THEN SubSeq(buffer0, 1, 2) \o SH30CRC_add(SH30CRC_new, data.v).out
                     ELSE SubSeq(buffer0, 1, 2)
        w == BusWrite(bus, ADDRESS, write_buf)
    IN  [bus |-> w.bus,
         res |-> IF w.res.kind = "Ok" THEN [kind |-> "Ok"]
                 ELSE [kind |-> "I2cRead", err |-> w.res.err]]

\* Variant of I2cComm::send that writes the whole 5-byte buffer also when
\* there is no data.
I2cComm_send_whole_buffer(bus, command, data) ==
    LET buffer0 == to_be_bytes(command) \o Zeros(3)
        write_buf == IF data.some
                     THEN SubSeq(buffer0, 1, 2) \o SH30CRC_add(SH30CRC_new, data.v).out
                     ELSE buffer0
        w == BusWrite(bus, ADDRESS, write_buf)
    IN  [bus |-> w.bus,
         res |-> IF w.res.kind = "Ok" THEN [kind |-> "Ok"]
                 ELSE [kind |-> "I2cWrite", err |-> w.res.err]]

\* I2cComm::send(command, data): one bus write of 2 or 5 bytes.
I2cComm_send(bus, command, data) ==
    LET buffer0 == to_be_bytes(command) \o Zeros(3)
        write_buf == IF data.some
                     THEN SubSeq(buffer0, 1, 2) \o SH30CRC_add(SH30CRC_new, data.v).out
                     ELSE SubSeq(buffer0, 1, 2)
        w == BusWrite(bus, ADDRESS, write_buf)
    IN  [bus |-> w.bus,
         res |-> IF w.res.kind = "Ok" THEN [kind |-> "Ok"]
                 ELSE [kind |-> "I2cWrite", err |-> w.res.err]]

\* data_with_crcs.chunks(3): the groups of up to three bytes, in order.
RECURSIVE Chunks3(_)
Chunks3(bytes) ==
    IF bytes = <<>> THEN <<>>
    ELSE IF Len(bytes) <= 3 THEN <<bytes>>
    ELSE <<SubSeq(bytes, 1, 3)>> \o Chunks3(SubSeq(bytes, 4, Len(bytes)))

\* chunks.find_map(|chunk| crc.check(chunk).err()): the first mismatch found by
\* the one CRC computer, or none.
RECURSIVE FindCrcErr(_, _)
FindCrcErr(self, chunks) ==
    IF chunks = <<>> THEN [kind |-> "None"]
    ELSE LET c == SH30CRC_check(self, Head(chunks))
         IN  IF c.res.kind = "InvalidCRC" THEN c.res
             ELSE FindCrcErr(c.self, Tail(chunks))

\* Variant of the copy loop that reads the received words at the stride of the
\* output (2 bytes) instead of 3.
RECURSIVE CopyWords_no_stride(_, _, _, _)
CopyWords_no_stride(data, data_with_crcs, i, words_requested) ==
    IF i = words_requested THEN [panic |-> FALSE, data |-> data]
    ELSE LET no_crc_offset == i * WORD_SIZE
             with_crc_offset == i * WORD_SIZE
         IN  IF no_crc_offset + 1 >= Len(data)
             THEN [panic |-> TRUE,
                   data |-> [data EXCEPT ![no_crc_offset + 1] =
                                             data_with_crcs[with_crc_offset + 1]]]
             ELSE CopyWords_no_stride(
                    [data EXCEPT ![no_crc_offset + 1] = data_with_crcs[with_crc_offset + 1],
                                 ![no_crc_offset + 2] = data_with_crcs[with_crc_offset + 2]],
                    data_with_crcs, i + 1, words_requested)

\* The copy loop of I2cComm::read from word i on: data[2i], data[2i+1] from
\* data_with_crcs[3i], data_with_crcs[3i+1]; an index past the end of data panics.
RECURSIVE CopyWords(_, _, _, _)
CopyWords(data, data_with_crcs, i, words_requested) ==
    IF i = words_requested THEN [panic |-> FALSE, data |-> data]
    ELSE LET no_crc_offset == i * WORD_SIZE
             with_crc_offset == i * WORD_WITH_CRC_SIZE
         IN  IF no_crc_offset + 1 >= Len(data)
             THEN [panic |-> TRUE,
                   data |-> [data EXCEPT ![no_crc_offset + 1] =
                                             data_with_crcs[with_crc_offset + 1]]]
             ELSE CopyWords(
                    [data EXCEPT ![no_crc_offset + 1] = data_with_crcs[with_crc_offset + 1],
                                 ![no_crc_offset + 2] = data_with_crcs[with_crc_offset + 2]],
                    data_with_crcs, i + 1, words_requested)

\* Variant of I2cComm::read that hands the whole local buffer to the bus
\* instead of the slice for the words requested.
I2cComm_read_whole_buffer(bus, data) ==
    LET words_requested == (Len(data) + 1) \div 2
    IN  IF ~(words_requested <= MAX_WORDS) \/ ~(words_requested >= 1)
        THEN [bus |-> bus, res |-> [kind |-> "Panic"], data |-> data,
              crc_err |-> [kind |-> "None"]]
        ELSE
        LET r == BusRead(bus, ADDRESS, BUFFER_SIZE)
        IN  IF r.res.kind # "Ok"
            THEN [bus |-> r.bus, res |-> [kind |-> "I2cRead", err |-> r.res.err],
                  data |-> data, crc_err |-> [kind |-> "None"]]
            ELSE
            LET crc_err == FindCrcErr(SH30CRC_new, Chunks3(r.bytes))
                copied == CopyWords(data, r.bytes, 0, words_requested)
            IN  [bus |-> r.bus,
                 res |-> IF copied.panic THEN [kind |-> "Panic"] ELSE [kind |-> "Ok"],
                 data |-> copied.data,
                 crc_err |-> crc_err]

\* Variant of I2cComm::read without assert!(words_requested >= 1).
I2cComm_read_no_lower_assert(bus, data) ==
    LET words_requested == (Len(data) + 1) \div 2
    IN  IF ~(words_requested <= MAX_WORDS)
        THEN [bus |-> bus, res |-> [kind |-> "Panic"], data |-> data,
              crc_err |-> [kind |-> "None"]]
        ELSE
        LET r == BusRead(bus, ADDRESS, words_requested * WORD_WITH_CRC_SIZE)
        IN  IF r.res.kind # "Ok"
            THEN [bus |-> r.bus, res |-> [kind |-> "I2cRead", err |-> r.res.err],
                  data |-> data, crc_err |-> [kind |-> "None"]]
            ELSE
            LET crc_err == FindCrcErr(SH30CRC_new, Chunks3(r.bytes))
                copied == CopyWords(data, r.bytes, 0, words_requested)
            IN  [bus |-> r.bus,
                 res |-> IF copied.panic THEN [kind |-> "Panic"] ELSE [kind |-> "Ok"],
                 data |-> copied.data,
                 crc_err |-> crc_err]

\* Variant of I2cComm::read that returns Err(Error::Crc(err)) on a checksum
\* mismatch (the statement the source has commented out).
I2cComm_read_crc_error(bus, data) ==
    LET words_requested == (Len(data) + 1) \div 2
    IN  IF ~(words_requested <= MAX_WORDS) \/ ~(words_requested >= 1)
        THEN [bus |-> bus, res |-> [kind |-> "Panic"], data |-> data,
              crc_err |-> [kind |-> "None"]]
        ELSE
        LET r == BusRead(bus, ADDRESS, words_requested * WORD_WITH_CRC_SIZE)
        IN  IF r.res.kind # "Ok"
            THEN [bus |-> r.bus, res |-> [kind |-> "I2cRead", err |-> r.res.err],
                  data |-> data, crc_err |-> [kind |-> "None"]]
            ELSE
            LET crc_err == FindCrcErr(SH30CRC_new, Chunks3(r.bytes))
                copied == CopyWords(data, r.bytes, 0, words_requested)
            IN  IF crc_err.kind = "InvalidCRC"
                THEN [bus |-> r.bus, res |-> [kind |-> "Crc", err |-> crc_err],
                      data |-> data, crc_err |-> crc_err]
                ELSE [bus |-> r.bus,
                      res |-> IF copied.panic THEN [kind |-> "Panic"]
                              ELSE [kind |-> "Ok"],
                      data |-> copied.data,
                      crc_err |-> crc_err]

\* I2cComm::read(data): one bus read of 3 bytes per word, the checksums checked
\* (a mismatch is only printed) and removed. crc_err is what was printed.
I2cComm_read(bus, data) ==
    LET words_requested == (Len(data) + 1) \div 2
    IN  IF ~(words_requested <= MAX_WORDS) \/ ~(words_requested >= 1)
        THEN [bus |-> bus, res |-> [kind |-> "Panic"], data |-> data,
              crc_err |-> [kind |-> "None"]]
        ELSE
        LET r == BusRead(bus, ADDRESS, words_requested * WORD_WITH_CRC_SIZE)
        IN  IF r.res.kind # "Ok"
            THEN [bus |-> r.bus, res |-> [kind |-> "I2cRead", err |-> r.res.err],
                  data |-> data, crc_err |-> [kind |-> "None"]]
            ELSE
            LET crc_err == FindCrcErr(SH30CRC_new, Chunks3(r.bytes))
                copied == CopyWords(data, r.bytes, 0, words_requested)
            IN  [bus |-> r.bus,
                 res |-> IF copied.panic THEN [kind |-> "Panic"] ELSE [kind |-> "Ok"],
                 data |-> copied.data,
                 crc_err |-> crc_err]

----------------------------------------------------------------------------
(* The command table: enum Command.                                        *)

Cmd(name, arg, flag) == [name |-> name, arg |-> arg, flag |-> flag]

StartContinuous == Cmd("StartContinuous", 0, FALSE)
StopContinuous == Cmd("StopContinuous", 0, FALSE)
SetContinuousInterval(period) == Cmd("SetContinuousInterval", period, FALSE)
GetDataReady == Cmd("GetDataReady", 0, FALSE)
ReadMeasurement == Cmd("ReadMeasurement", 0, FALSE)
SetAutomaticSelfCalibration(on) == Cmd("SetAutomaticSelfCalibration", 0, on)
SetForcedRecalibration(value) == Cmd("SetForcedRecalibration", value, FALSE)
SetTemperatureOffset(value) == Cmd("SetTemperatureOffset", value, FALSE)
SetAltitude(value) == Cmd("SetAltitude", value, FALSE)
SoftReset == Cmd("SoftReset", 0, FALSE)

\* Variant of Command::command with the identifier of SetForcedRecalibration
\* repeated for SetAltitude.
Command_command_duplicate(cmd) ==
    CASE cmd.name = "StartContinuous" -> 16
      [] cmd.name = "StopContinuous" -> 260
      [] cmd.name = "SetContinuousInterval" -> 17920
      [] cmd.name = "GetDataReady" -> 514
      [] cmd.name = "ReadMeasurement" -> 768
      [] cmd.name = "SetAutomaticSelfCalibration" -> 21254
      [] cmd.name = "SetForcedRecalibration" -> 20996
      [] cmd.name = "SetTemperatureOffset" -> 21507
      [] cmd.name = "SetAltitude" -> 20996
      [] cmd.name = "SoftReset" -> 54020

\* Command::command.
Command_command(cmd) ==
    CASE cmd.name = "StartContinuous" -> 16                 \* 0x0010
      [] cmd.name = "StopContinuous" -> 260                 \* 0x0104
      [] cmd.name = "SetContinuousInterval" -> 17920        \* 0x4600
      [] cmd.name = "GetDataReady" -> 514                   \* 0x0202
      [] cmd.name = "ReadMeasurement" -> 768                \* 0x0300
      [] cmd.name = "SetAutomaticSelfCalibration" -> 21254  \* 0x5306
      [] cmd.name = "SetForcedRecalibration" -> 20996       \* 0x5204
      [] cmd.name = "SetTemperatureOffset" -> 21507         \* 0x5403
      [] cmd.name = "SetAltitude" -> 20738                  \* 0x5102
      [] cmd.name = "SoftReset" -> 54020                    \* 0xD304

\* Variant of Command::data in which StartContinuous falls to the default arm.
Command_data_no_start_payload(cmd) ==
    CASE cmd.name = "SetContinuousInterval" -> Some(cmd.arg)
      [] cmd.name = "SetAutomaticSelfCalibration" /\ ~cmd.flag -> Some(0)
      [] cmd.name = "SetAutomaticSelfCalibration" /\ cmd.flag -> Some(1)
      [] cmd.name = "SetForcedRecalibration" -> Some(cmd.arg)
      [] cmd.name = "SetTemperatureOffset" -> Some(cmd.arg)
      [] cmd.name = "SetAltitude" -> Some(cmd.arg)
      [] OTHER -> None

\* Command::data.
Command_data(cmd) ==
    CASE cmd.name = "StartContinuous" -> Some(0)
      [] cmd.name = "SetContinuousInterval" -> Some(cmd.arg)
      [] cmd.name = "SetAutomaticSelfCalibration" /\ ~cmd.flag -> Some(0)
      [] cmd.name = "SetAutomaticSelfCalibration" /\ cmd.flag -> Some(1)
      [] cmd.name = "SetForcedRecalibration" -> Some(cmd.arg)
      [] cmd.name = "SetTemperatureOffset" -> Some(cmd.arg)
      [] cmd.name = "SetAltitude" -> Some(cmd.arg)
      [] OTHER -> None

\* Variant of Command::data_bytes that expects two words after GetDataReady.
Command_data_bytes_ready_two(cmd) ==
    LET words == CASE cmd.name = "GetDataReady" -> 2
                   [] cmd.name = "ReadMeasurement" -> 6
                   [] OTHER -> 0
    IN  words * 2

\* Command::data_bytes.
Command_data_bytes(cmd) ==
    LET words == CASE cmd.name = "GetDataReady" -> 1
                   [] cmd.name = "ReadMeasurement" -> 6
                   [] OTHER -> 0
    IN  words * 2

----------------------------------------------------------------------------
(* The device driver: SCD30.                                               *)

PeriodMin == 2
PeriodMax == 1800

\* Duration::as_secs: the whole seconds of a duration.
as_secs(d) == d.secs

\* period as u16.
as_u16(n) == n % (WordMax + 1)

\* f32::from_be_bytes: the float with this bit pattern, kept as the three fields
\* of its IEEE-754 binary32 encoding (1 sign bit, 8 exponent bits, 23 fraction
\* bits).
f32_from_be_bytes(b) ==
    [sign |-> b[1] \div 128,
     exponent |-> (b[1] % 128) * 2 + b[2] \div 128,
     fraction |-> ((b[2] % 128) * 256 + b[3]) * 256 + b[4]]

\* Variant of the range test with an exclusive upper end: (2..1800).
PeriodValid_exclusive(period) == period \in PeriodMin..(PeriodMax - 1)

\* The range test of SCD30::new: (2..=1800).contains(&period).
PeriodValid(period) == period \in PeriodMin..PeriodMax

\* Variant of run_command that sends the command a second time when the first
\* write fails.
run_command_retry(bus, cmd) ==
    LET first == I2cComm_send(bus, Command_command(cmd), Command_data(cmd))
    IN  IF first.res.kind = "Ok" THEN first
        ELSE I2cComm_send(first.bus, Command_command(cmd), Command_data(cmd))

\* SCD30::run_command.
run_command(bus, cmd) == I2cComm_send(bus, Command_command(cmd), Command_data(cmd))

\* Variant of SCD30::new that starts continuous measurement before it sets
\* the interval.
SCD30_new_start_first(bus, settings) ==
    LET period == as_secs(settings.period)
    IN  IF ~PeriodValid(period)
        THEN [bus |-> bus, continuous_enabled |-> FALSE,
              res |-> [kind |-> "InvalidArgument",
                       msg |-> "period must be between 2 and 1800 seconds"]]
        ELSE
        LET c1 == run_command(bus, StartContinuous)
        IN  IF c1.res.kind # "Ok"
            THEN [bus |-> c1.bus, continuous_enabled |-> FALSE, res |-> c1.res]
            ELSE
            LET c2 == run_command(c1.bus, SetContinuousInterval(as_u16(period)))
            IN  IF c2.res.kind # "Ok"
                THEN [bus |-> c2.bus, continuous_enabled |-> FALSE, res |-> c2.res]
                ELSE [bus |-> c2.bus, continuous_enabled |-> TRUE,
                      res |-> [kind |-> "Ok"]]

\* Variant of SCD30::new that drops the result of SetContinuousInterval
\* instead of returning its error.
SCD30_new_ignore_first(bus, settings) ==
    LET period == as_secs(settings.period)
    IN  IF ~PeriodValid(period)
        THEN [bus |-> bus, continuous_enabled |-> FALSE,
              res |-> [kind |-> "InvalidArgument",
                       msg |-> "period must be between 2 and 1800 seconds"]]
        ELSE
        LET c1 == run_command(bus, SetContinuousInterval(as_u16(period)))
            c2 == run_command(c1.bus, StartContinuous)
        IN  IF c2.res.kind # "Ok"
            THEN [bus |-> c2.bus, continuous_enabled |-> FALSE, res |-> c2.res]
            ELSE [bus |-> c2.bus, continuous_enabled |-> TRUE,
                  res |-> [kind |-> "Ok"]]

\* Variant of SCD30::new that sets continuous_enabled before StartContinuous
\* has been sent.
SCD30_new_flag_early(bus, settings) ==
    LET period == as_secs(settings.period)
    IN  IF ~PeriodValid(period)
        THEN [bus |-> bus, continuous_enabled |-> FALSE,
              res |-> [kind |-> "InvalidArgument",
                       msg |-> "period must be between 2 and 1800 seconds"]]
        ELSE
        LET c1 == run_command(bus, SetContinuousInterval(as_u16(period)))
        IN  IF c1.res.kind # "Ok"
            THEN [bus |-> c1.bus, continuous_enabled |-> FALSE, res |-> c1.res]
            ELSE
            LET c2 == run_command(c1.bus, StartContinuous)
            IN  IF c2.res.kind # "Ok"
                THEN [bus |-> c2.bus, continuous_enabled |-> TRUE, res |-> c2.res]
                ELSE [bus |-> c2.bus, continuous_enabled |-> TRUE,
                      res |-> [kind |-> "Ok"]]

\* SCD30::new(bus, settings): the bus after it, the Result, and the value of
\* s.continuous_enabled when the function returns.
SCD30_new(bus, settings) ==
    LET period == as_secs(settings.period)
    IN  IF ~PeriodValid(period)
        THEN [bus |-> bus, continuous_enabled |-> FALSE,
              res |-> [kind |-> "InvalidArgument",
                       msg |-> "period must be between 2 and 1800 seconds"]]
        ELSE
        LET c1 == run_command(bus, SetContinuousInterval(as_u16(period)))
        IN  IF c1.res.kind # "Ok"
            THEN [bus |-> c1.bus, continuous_enabled |-> FALSE, res |-> c1.res]
            ELSE
            LET c2 == run_command(c1.bus, StartContinuous)
            IN  IF c2.res.kind # "Ok"
                THEN [bus |-> c2.bus, continuous_enabled |-> FALSE, res |-> c2.res]
                ELSE [bus |-> c2.bus, continuous_enabled |-> TRUE,
                      res |-> [kind |-> "Ok"]]

\* Variant of SCD30::stop that clears continuous_enabled before it knows that
\* the command was written.
SCD30_stop_flag_first(bus, enabled) ==
    LET c == run_command(bus, StopContinuous)
    IN  IF c.res.kind = "Ok"
        THEN [bus |-> c.bus, continuous_enabled |-> FALSE, res |-> [kind |-> "Ok"],
              returned |-> FALSE]
        ELSE [bus |-> c.bus, continuous_enabled |-> FALSE, res |-> c.res,
              returned |-> TRUE]

\* SCD30::stop(self).
SCD30_stop(bus, enabled) ==
    LET c == run_command(bus, StopContinuous)
    IN  IF c.res.kind = "Ok"
        THEN [bus |-> c.bus, continuous_enabled |-> FALSE, res |-> [kind |-> "Ok"],
              returned |-> FALSE]
        ELSE [bus |-> c.bus, continuous_enabled |-> enabled, res |-> c.res,
              returned |-> TRUE]

\* Variant of the readiness test that takes every nonzero word for "ready".
NotReadyWord_zero(ready) == from_be_bytes(ready) = 0

\* The readiness test of SCD30::sample: u16::from_be_bytes(ready) != 1.
NotReadyWord(ready) == from_be_bytes(ready) # 1

\* Variant of the decoding with temperature and humidity exchanged.
DecodeSample_swapped(data) ==
    [co2 |-> f32_from_be_bytes(SubSeq(data, 1, 4)),
     temperature |-> f32_from_be_bytes(SubSeq(data, 9, 12)),
     humidity |-> f32_from_be_bytes(SubSeq(data, 5, 8))]

\* The decoding of SCD30::sample: CO2, temperature, humidity, each a
\* big-endian f32.
DecodeSample(data) ==
    [co2 |-> f32_from_be_bytes(SubSeq(data, 1, 4)),
     temperature |-> f32_from_be_bytes(SubSeq(data, 5, 8)),
     humidity |-> f32_from_be_bytes(SubSeq(data, 9, 12))]

\* SCD30::sample(&mut self).
SCD30_sample(bus) ==
    LET READY == GetDataReady
        c1 == run_command(bus, READY)
    IN  IF c1.res.kind # "Ok" THEN [bus |-> c1.bus, res |-> c1.res]
        ELSE
        LET r1 == I2cComm_read(c1.bus, Zeros(Command_data_bytes(READY)))
        IN  IF r1.res.kind # "Ok" THEN [bus |-> r1.bus, res |-> r1.res]
            ELSE IF NotReadyWord(r1.data)
            THEN [bus |-> r1.bus, res |-> [kind |-> "NotReady"]]
            ELSE
            LET SAMPLE == ReadMeasurement
                c2 == run_command(r1.bus, SAMPLE)
            IN  IF c2.res.kind # "Ok" THEN [bus |-> c2.bus, res |-> c2.res]
                ELSE
                LET r2 == I2cComm_read(c2.bus, Zeros(Command_data_bytes(SAMPLE)))
                IN  IF r2.res.kind # "Ok" THEN [bus |-> r2.bus, res |-> r2.res]
                    ELSE [bus |-> r2.bus,
                          res |-> [kind |-> "Ok", sample |-> DecodeSample(r2.data)]]

----------------------------------------------------------------------------
(* Spec: a caller that opens the sensor, samples it and stops it, over a    *)
(* bus that may fail any one transaction of a call.                        *)

\* The latest transaction of a call that the bus may fail (0: none fails).
MaxFailAt == 4

\* The period settings tried, as whole seconds and nanoseconds.
PeriodSecs == {0, 1, 2, 3, 10, 255, 256, 1799, 1800, 1801, 65535, 65538}
PeriodNanos == {0, 999999999}
Durations == [secs : PeriodSecs, nanos : PeriodNanos]

BusErrors == {"NoAcknowledge", "ArbitrationLoss"}

\* A reply of the device: each word followed by its checksum.
RECURSIVE Frame(_)
Frame(words) ==
    IF words = <<>> THEN <<>>
    ELSE SH30CRC_add(SH30CRC_new, Head(words)).out \o Frame(Tail(words))

\* Replies to GetDataReady: correctly checksummed words, and the word 1 and
\* the word 0 with a wrong checksum.
ReadyWords == {0, 1, 2, 256, 257, 65535}
ReadyReplies == {Frame(<<w>>) : w \in ReadyWords} \cup {<<0, 1, 0>>, <<0, 0, 0>>}

\* Replies to ReadMeasurement: 400.0 ppm, 21.5 C, 45.0 % (0x43C80000,
\* 0x41AC0000, 0x42340000); twelve distinct data bytes; the same with every
\* checksum wrong; the first reply with only the checksum of its fourth word
\* wrong; an idle bus.
DataReplies ==
    { Frame(<<17352, 0, 16812, 0, 16948, 0>>),
      Frame(<<258, 772, 1286, 1800, 2314, 2828>>),
      <<1, 2, 0, 3, 4, 0, 5, 6, 0, 7, 8, 0, 9, 10, 0, 11, 12, 0>>,
      [Frame(<<17352, 0, 16812, 0, 16948, 0>>) EXCEPT ![12] = 0],
      [i \in 1..18 |-> 255] }

\* The checksum variables while no checksum operation is being applied.
NoCrcInput == [kind |-> "idle", word |-> 0, raw |-> <<>>]
NoCrcRes == [kind |-> "None"]

NoCall == [op |-> "none", period |-> [secs |-> 0, nanos |-> 0], failAt |-> 0,
           err |-> "NoAcknowledge", replies |-> <<>>]
NoResult == [kind |-> "None"]

\* The framer variables while no call has been made on a bare I2cComm.
NoCommCall == [op |-> "none", command |-> 0, data |-> None, cmd |-> SoftReset,
               len |-> 0, fill |-> 0, failAt |-> 0, err |-> "NoAcknowledge",
               reply |-> <<>>]
NoCommOut == [res |-> [kind |-> "None"], log |-> <<>>, data |-> <<>>,
              crc_err |-> [kind |-> "None"],
              command |-> 0, payload |-> None, data_bytes |-> 0]

IdleComm ==
    /\ commCall = NoCommCall
    /\ commOut = NoCommOut

\* A fresh SH30CRC on which nothing has been computed yet.
IdleHist ==
    /\ inst = SH30CRC_new
    /\ instOps = <<>>

\* The threads that share one Context (each holds a clone of it).
Threads == {1, 2, 3}

\* An f32, by its sign, biased exponent and fraction.
F32Zero == [sign |-> 0, exponent |-> 0, fraction |-> 0]

\* Option<f32>.
SomeF32(x) == [some |-> TRUE, v |-> x]
NoneF32 == [some |-> FALSE, v |-> F32Zero]

\* AtmosphereSample::default(): the epoch and no measurement.
AtmosphereSample_default ==
    [timestamp |-> 0, temperature |-> NoneF32, relative_humidity |-> NoneF32,
     co2_ppm |-> NoneF32]

NoAtmoCall == [op |-> "none", failAt |-> 0, err |-> "NoAcknowledge",
               replies |-> <<>>, now |-> 0]
NoAtmoOut == [sample |-> AtmosphereSample_default, res |-> [kind |-> "None"],
              log |-> <<>>]

IdleAtmo ==
    /\ atmoCall = NoAtmoCall
    /\ atmoOut = NoAtmoOut

\* Option<LastMeasurement>, with times and values as integers.
NoMeasurement == [some |-> FALSE, at |-> 0, value |-> 0]
SomeMeasurement(at, value) == [some |-> TRUE, at |-> at, value |-> value]

\* Renderer's slots start as None (From<RendererSettings> for Renderer).
IdleLm ==
    /\ slot = NoMeasurement
    /\ updates = <<>>

\* No PerimiterTracer has been made yet.
NoTracer == [made |-> FALSE, next |-> [x |-> 0, y |-> 0],
             bounds |-> [width |-> 0, height |-> 0]]

IdleTracer ==
    /\ tracer = NoTracer
    /\ yielded = <<>>

\* Numbers are kept in units of 2^-20, so that an f64 that is no f32 can be
\* told from its conversion.
Unit == 1048576

\* An f64 read from an input element: a number, or NaN (an empty or unparsable
\* input).
Num(v) == [nan |-> FALSE, v |-> v]
NaN == [nan |-> TRUE, v |-> 0]

\* RendererSettings::default(): Washington, DC.
DefaultLatitude == 39 * Unit
DefaultLongitude == -77 * Unit

NoWebCall == [op |-> "none", latitude |-> NaN, longitude |-> NaN, rest |-> "Ok"]

\* WebRenderer::new().
IdleWeb ==
    /\ webSettings = [latitude |-> Num(DefaultLatitude),
                      longitude |-> Num(DefaultLongitude)]
    /\ webCall = NoWebCall

\* Context::new(): not cancelled, the mutex free, nobody waiting; no thread has
\* called anything.
IdleCtx ==
    /\ cancelled = FALSE
    /\ lock = 0
    /\ blocked = {}
    /\ thPc = [t \in Threads |-> "idle"]
    /\ thOp = [t \in Threads |-> "none"]
    /\ thRet = [t \in Threads |-> "none"]
    /\ thExpired = [t \in Threads |-> FALSE]

IdleOther == IdleHist /\ IdleAtmo /\ IdleLm /\ IdleTracer /\ IdleWeb /\ IdleCtx

InitDrv ==
    /\ handle = "none"
    /\ continuous_enabled = FALSE
    /\ call = NoCall
    /\ result = NoResult
    /\ traffic = <<>>

IdleCrc ==
    /\ crc = SH30CRC_new
    /\ crcIn = NoCrcInput
    /\ crcOut = <<>>
    /\ crcRes = NoCrcRes
    /\ crcPc = "idle"

\* SCD30::new(bus, SCD30Settings { period }).
New(period, failAt, err) ==
    /\ handle # "live"
    /\ LET r == SCD30_new(NewBus(failAt, err, <<>>), [period |-> period])
       IN  /\ handle' = IF r.res.kind = "Ok" THEN "live" ELSE "none"
           /\ continuous_enabled' = r.continuous_enabled
           /\ result' = r.res
           /\ traffic' = r.bus.log
    /\ call' = [op |-> "new", period |-> period, failAt |-> failAt, err |-> err,
                replies |-> <<>>]
    /\ UNCHANGED <<crcVars, commVars, otherVars>>

\* scd30.sample().
Sample(failAt, err, ready, data) ==
    /\ handle = "live"
    /\ LET r == SCD30_sample(NewBus(failAt, err, <<ready, data>>))
       IN  /\ result' = r.res
           /\ traffic' = r.bus.log
    /\ call' = [op |-> "sample", period |-> NoCall.period, failAt |-> failAt,
                err |-> err, replies |-> <<ready, data>>]
    /\ UNCHANGED <<handle, continuous_enabled, crcVars, commVars, otherVars>>

\* scd30.stop().
Stop(failAt, err) ==
    /\ handle = "live"
    /\ LET r == SCD30_stop(NewBus(failAt, err, <<>>), continuous_enabled)
       IN  /\ handle' = IF r.returned THEN "live" ELSE "consumed"
           /\ continuous_enabled' = r.continuous_enabled
           /\ result' = r.res
           /\ traffic' = r.bus.log
    /\ call' = [op |-> "stop", period |-> NoCall.period, failAt |-> failAt,
                err |-> err, replies |-> <<>>]
    /\ UNCHANGED <<crcVars, commVars, otherVars>>

Init == IdleCrc /\ InitDrv /\ IdleComm /\ IdleOther

Next ==
    \/ \E period \in Durations, failAt \in 0..MaxFailAt, err \in BusErrors :
          New(period, failAt, err)
    \/ \E failAt \in 0..MaxFailAt, err \in BusErrors,
          ready \in ReadyReplies, data \in DataReplies :
          Sample(failAt, err, ready, data)
    \/ \E failAt \in 0..MaxFailAt, err \in BusErrors : Stop(failAt, err)

Spec == Init /\ [][Next]_vars

----------------------------------------------------------------------------
(* SpecComm: one call on a bare I2cComm (send, read) or one command of the  *)
(* table run through it, with any arguments.                               *)

\* The longest output buffer handed to I2cComm::read, in bytes.
MaxReadLen == 14

SendCommands == {0, 16, 260, 514, 768, 17920, 54020, 65535}
SendWords == {0, 1, 10, 1800, 48879, 65535}
SendData == {None} \cup {Some(w) : w \in SendWords}

CommandArgs == {0, 1, 2, 400, 1800, 65535}
Commands ==
    {StartContinuous, StopContinuous, GetDataReady, ReadMeasurement, SoftReset}
    \cup {SetContinuousInterval(v) : v \in CommandArgs}
    \cup {SetAutomaticSelfCalibration(on) : on \in BOOLEAN}
    \cup {SetForcedRecalibration(v) : v \in CommandArgs}
    \cup {SetTemperatureOffset(v) : v \in CommandArgs}
    \cup {SetAltitude(v) : v \in CommandArgs}

\* What the caller's buffer holds before the read.
BufferFills == {0, 170}

\* comm.send(command, data).
CommSend(command, data, failAt, err) ==
    /\ commCall = NoCommCall
    /\ LET r == I2cComm_send(NewBus(failAt, err, <<>>), command, data)
       IN  commOut' = [NoCommOut EXCEPT !.res = r.res, !.log = r.bus.log]
    /\ commCall' = [NoCommCall EXCEPT !.op = "send", !.command = command,
                                      !.data = data, !.failAt = failAt, !.err = err]
    /\ UNCHANGED <<crcVars, drvVars, otherVars>>

\* cmd.command(), cmd.data(), cmd.data_bytes() and run_command(cmd).
CommRun(cmd, failAt, err) ==
    /\ commCall = NoCommCall
    /\ LET r == run_command(NewBus(failAt, err, <<>>), cmd)
       IN  commOut' = [NoCommOut EXCEPT !.res = r.res, !.log = r.bus.log,
                                        !.command = Command_command(cmd),
                                        !.payload = Command_data(cmd),
                                        !.data_bytes = Command_data_bytes(cmd)]
    /\ commCall' = [NoCommCall EXCEPT !.op = "run", !.cmd = cmd,
                                      !.failAt = failAt, !.err = err]
    /\ UNCHANGED <<crcVars, drvVars, otherVars>>

\* comm.read(&mut data) with a buffer of len bytes.
CommRead(len, fill, reply, failAt, err) ==
    /\ commCall = NoCommCall
    /\ LET r == I2cComm_read(NewBus(failAt, err, <<reply>>), [i \in 1..len |-> fill])
       IN  commOut' = [NoCommOut EXCEPT !.res = r.res, !.log = r.bus.log,
                                        !.data = r.data, !.crc_err = r.crc_err]
    /\ commCall' = [NoCommCall EXCEPT !.op = "read", !.len = len, !.fill = fill,
                                      !.reply = reply, !.failAt = failAt,
                                      !.err = err]
    /\ UNCHANGED <<crcVars, drvVars, otherVars>>

NextComm ==
    \/ \E command \in SendCommands, data \in SendData,
          failAt \in 0..1, err \in BusErrors :
          CommSend(command, data, failAt, err)
    \/ \E cmd \in Commands, failAt \in 0..1, err \in BusErrors :
          CommRun(cmd, failAt, err)
    \/ \E len \in 0..MaxReadLen, fill \in BufferFills, reply \in DataReplies,
          failAt \in 0..1, err \in BusErrors :
          CommRead(len, fill, reply, failAt, err)

SpecComm == Init /\ [][NextComm]_vars

\* SpecAll: either the driver is used, or a bare I2cComm is.
NextAll ==
    \/ commCall = NoCommCall /\ Next
    \/ call = NoCall /\ NextComm

SpecAll == Init /\ [][NextAll]_vars

----------------------------------------------------------------------------
(* SpecCrc: the checksum operations applied to every 16-bit word and to a  *)
(* set of received 3-byte groups.                                          *)

\* Data bytes of the received groups the check is applied to (every checksum
\* byte is tried with each pair of them).
RawDataBytes == {0, 1, 49, 127, 128, 190, 239, 255}


WordInput(w) == [kind |-> "word", word |-> w, raw |-> <<>>]
RawInput(r) == [kind |-> "raw", word |-> 0, raw |-> r]

InitCrc ==
    /\ crc = SH30CRC_new
    /\ \/ \E w \in Words : crcIn = WordInput(w)
       \/ \E b0 \in RawDataBytes, b1 \in RawDataBytes, c \in Bytes :
             crcIn = RawInput(<<b0, b1, c>>)
    /\ crcOut = <<>>
    /\ crcRes = NoCrcRes
    /\ crcPc = "start"
    /\ InitDrv
    /\ IdleComm
    /\ IdleOther

\* crc.add(word) on the input word.
CrcAdd ==
    /\ crcPc = "start"
    /\ crcIn.kind = "word"
    /\ LET r == SH30CRC_add(crc, crcIn.word)
       IN  /\ crc' = r.self
           /\ crcOut' = r.out
    /\ crcPc' = "added"
    /\ UNCHANGED <<crcIn, crcRes, drvVars, commVars, otherVars>>

\* crc.check(&bytes) on the bytes the add produced.
CrcCheckAdded ==
    /\ crcPc = "added"
    /\ LET r == SH30CRC_check(crc, crcOut)
       IN  /\ crc' = r.self
           /\ crcRes' = r.res
    /\ crcPc' = "checked"
    /\ UNCHANGED <<crcIn, crcOut, drvVars, commVars, otherVars>>

\* crc.check(raw) on a received group.
CrcCheckRaw ==
    /\ crcPc = "start"
    /\ crcIn.kind = "raw"
    /\ LET r == SH30CRC_check(crc, crcIn.raw)
       IN  /\ crc' = r.self
           /\ crcRes' = r.res
    /\ crcPc' = "checked"
    /\ UNCHANGED <<crcIn, crcOut, drvVars, commVars, otherVars>>

NextCrc == CrcAdd \/ CrcCheckAdded \/ CrcCheckRaw

SpecCrc == InitCrc /\ [][NextCrc]_vars

----------------------------------------------------------------------------
(* SpecSeq: one SH30CRC instance on which add and check are called several *)
(* times in any order, and the multi-word read, which checks all its groups *)
(* with one instance.                                                      *)

\* The most operations applied to one instance.
MaxOps == 3

SeqWords == {0, 1, 48879, 65535}
SeqRaws == {<<190, 239, 146>>, <<190, 239, 145>>, <<0, 0, 129>>, <<0, 0, 0>>,
            <<255, 255, 255>>}

\* crc.add(word) on the instance.
SeqAdd(word) ==
    /\ commCall = NoCommCall
    /\ Len(instOps) < MaxOps
    /\ LET r == SH30CRC_add(inst, word)
       IN  /\ inst' = r.self
           /\ instOps' = Append(instOps, [op |-> "add", word |-> word, raw |-> <<>>,
                                          out |-> r.out, res |-> [kind |-> "None"]])
    /\ UNCHANGED <<crcVars, drvVars, commVars, atmoVars, lmVars, ptVars, webVars,
                   ctxVars>>

\* crc.check(raw) on the instance.
SeqCheck(raw) ==
    /\ commCall = NoCommCall
    /\ Len(instOps) < MaxOps
    /\ LET r == SH30CRC_check(inst, raw)
       IN  /\ inst' = r.self
           /\ instOps' = Append(instOps, [op |-> "check", word |-> 0, raw |-> raw,
                                          out |-> <<>>, res |-> r.res])
    /\ UNCHANGED <<crcVars, drvVars, commVars, atmoVars, lmVars, ptVars, webVars,
                   ctxVars>>

NextSeq ==
    \/ \E word \in SeqWords : SeqAdd(word)
    \/ \E raw \in SeqRaws : SeqCheck(raw)
    \/ /\ instOps = <<>>
       /\ \E len \in 0..MaxReadLen, fill \in BufferFills, reply \in DataReplies,
             failAt \in 0..1, err \in BusErrors :
             CommRead(len, fill, reply, failAt, err)

SpecSeq == Init /\ [][NextSeq]_vars

----------------------------------------------------------------------------
(* SpecAtmo: one poll of the AtmosphereSampler adapter of a live SCD30,    *)
(* over a bus that may fail any one transaction of the call.               *)

\* The times Utc::now() returns, as integers.
Instants == {1, 2}

\* The match of <SCD30 as AtmosphereSampler>::sample on the driver's result r:
\* the sample returned, with the driver's own result and the bus after it.
AtmosphereSample_from(r, now) ==
    [bus |-> r.bus,
     res |-> r.res,
     sample |-> IF r.res.kind = "Ok"
                THEN [timestamp |-> now,
                      temperature |-> SomeF32(r.res.sample.temperature),
                      relative_humidity |-> SomeF32(r.res.sample.humidity),
                      co2_ppm |-> SomeF32(r.res.sample.co2)]
                ELSE [AtmosphereSample_default EXCEPT !.timestamp = now]]

\* Variant of the adapter that samples a second time when the sensor is not
\* ready.
AtmosphereSampler_sample_retry(bus, now) ==
    LET first == SCD30_sample(bus)
    IN  AtmosphereSample_from(IF first.res.kind = "NotReady"
                              THEN SCD30_sample(first.bus) ELSE first, now)

\* <SCD30 as AtmosphereSampler>::sample(&mut self): one SCD30::sample, then
\* the match on its result.
AtmosphereSampler_sample(bus, now) ==
    AtmosphereSample_from(SCD30_sample(bus), now)

\* What a poll leaves to observe: the sample, the driver's result and the
\* bus traffic.
AtmoOutcome(r) == [sample |-> r.sample, res |-> r.res, log |-> r.bus.log]

\* atmo.sample() on an SCD30 behind the AtmosphereSampler trait.
AtmoSample(failAt, err, ready, data, now) ==
    /\ atmoCall = NoAtmoCall
    /\ atmoOut' = AtmoOutcome(AtmosphereSampler_sample(
                                 NewBus(failAt, err, <<ready, data>>), now))
    /\ atmoCall' = [op |-> "sample", failAt |-> failAt, err |-> err,
                    replies |-> <<ready, data>>, now |-> now]
    /\ UNCHANGED <<crcVars, drvVars, commVars, histVars, lmVars, ptVars, webVars,
                   ctxVars>>

NextAtmo ==
    \E failAt \in 0..MaxFailAt, err \in BusErrors, ready \in ReadyReplies,
       data \in DataReplies, now \in Instants :
       AtmoSample(failAt, err, ready, data, now)

SpecAtmo == Init /\ [][NextAtmo]_vars

----------------------------------------------------------------------------
(* SpecLm: LastMeasurement::update called any number of times on one slot, *)
(* with timestamps in any order.                                           *)

\* The most update calls made on the slot.
MaxUpdates == 3

\* Timestamps and measured values, as integers.
UpdateTimes == {0, 1, 2}
UpdateValues == {None, Some(10), Some(20)}

\* Variant of LastMeasurement::update that also takes a value whose timestamp
\* equals the stored one.
LastMeasurement_update_ge(old, time, new) ==
    LET n == IF new.some THEN SomeMeasurement(time, new.v) ELSE NoMeasurement
    IN  CASE old.some /\ n.some -> IF n.at >= old.at THEN n ELSE old
          [] old.some /\ ~n.some -> old
          [] ~old.some /\ n.some -> n
          [] OTHER -> NoMeasurement

\* LastMeasurement::update(old, time, new): the new content of *old.
LastMeasurement_update(old, time, new) ==
    LET n == IF new.some THEN SomeMeasurement(time, new.v) ELSE NoMeasurement
    IN  CASE old.some /\ n.some -> IF n.at > old.at THEN n ELSE old
          [] old.some /\ ~n.some -> old
          [] ~old.some /\ n.some -> n
          [] OTHER -> NoMeasurement

\* LastMeasurement::update(&mut slot, time, new).
LmUpdate(time, new) ==
    /\ Len(updates) < MaxUpdates
    /\ slot' = LastMeasurement_update(slot, time, new)
    /\ updates' = Append(updates, [time |-> time, new |-> new])
    /\ UNCHANGED <<crcVars, drvVars, commVars, histVars, atmoVars, ptVars, webVars,
                   ctxVars>>

NextLm == \E time \in UpdateTimes, new \in UpdateValues : LmUpdate(time, new)

SpecLm == Init /\ [][NextLm]_vars

----------------------------------------------------------------------------
(* SpecTracer: a PerimiterTracer made over a display size and advanced.    *)

\* The largest width and height of the display.
MaxSide == 4

\* The most points taken from one tracer: more than one lap of the largest
\* display.
MaxSteps == 4 * MaxSide

Sides == 1..MaxSide

Point(x, y) == [x |-> x, y |-> y]
Size(width, height) == [width |-> width, height |-> height]

\* PerimiterTracer::new(size).
PerimiterTracer_new(size) ==
    LET y == size.height - 1
        x == size.width \div 2
    IN  [made |-> TRUE, next |-> Point(x, y), bounds |-> size]

\* Variant of PerimiterTracer::next that takes the right edge to be at
\* x == width.
PerimiterTracer_next_wide(self) ==
    LET v == self.next
        right_edge == v.x = self.bounds.width
        left_edge == v.x = 0
        top_edge == v.y = 0
        bottom_edge == v.y = self.bounds.height - 1
        y1 == IF right_edge /\ ~bottom_edge THEN v.y + 1 ELSE v.y
        x1 == IF bottom_edge /\ ~left_edge THEN v.x - 1 ELSE v.x
        y2 == IF left_edge /\ ~top_edge THEN y1 - 1 ELSE y1
        x2 == IF top_edge /\ ~right_edge THEN x1 + 1 ELSE x1
    IN  [self |-> [self EXCEPT !.next = Point(x2, y2)], item |-> v]

\* PerimiterTracer::next(&mut self): the tracer after the call and the point
\* returned (always Some). The four tests are made on the point as it was; the
\* four moves apply one after the other.
PerimiterTracer_next(self) ==
    LET v == self.next
        right_edge == v.x = self.bounds.width - 1
        left_edge == v.x = 0
        top_edge == v.y = 0
        bottom_edge == v.y = self.bounds.height - 1
        y1 == IF right_edge /\ ~bottom_edge THEN v.y + 1 ELSE v.y
        x1 == IF bottom_edge /\ ~left_edge THEN v.x - 1 ELSE v.x
        y2 == IF left_edge /\ ~top_edge THEN y1 - 1 ELSE y1
        x2 == IF top_edge /\ ~right_edge THEN x1 + 1 ELSE x1
    IN  [self |-> [self EXCEPT !.next = Point(x2, y2)], item |-> v]

\* PerimiterTracer::new(display.size()).
TracerNew(width, height) ==
    /\ ~tracer.made
    /\ tracer' = PerimiterTracer_new(Size(width, height))
    /\ yielded' = <<>>
    /\ UNCHANGED <<crcVars, drvVars, commVars, histVars, atmoVars, lmVars, webVars,
                   ctxVars>>

\* tracer.next().
TracerNext ==
    /\ tracer.made
    /\ Len(yielded) < MaxSteps
    /\ LET r == PerimiterTracer_next(tracer)
       IN  /\ tracer' = r.self
           /\ yielded' = Append(yielded, r.item)
    /\ UNCHANGED <<crcVars, drvVars, commVars, histVars, atmoVars, lmVars, webVars,
                   ctxVars>>

NextTracer ==
    \/ \E width \in Sides, height \in Sides : TracerNew(width, height)
    \/ TracerNext

SpecTracer == Init /\ [][NextTracer]_vars

----------------------------------------------------------------------------
(* SpecWeb: WebRenderer::update called with any latitude and longitude     *)
(* inputs.                                                                 *)

\* The smallest power of two q with a < 2^24 * q.
RECURSIVE F32Quantum(_, _)
F32Quantum(a, q) == IF a < 16777216 * q THEN q ELSE F32Quantum(a, 2 * q)

\* `x as f32` for an f64 x: the nearest number with 24 significant bits, ties
\* to the even one; NaN stays NaN.
as_f32(x) ==
    IF x.nan THEN NaN
    ELSE LET a == IF x.v < 0 THEN -x.v ELSE x.v
             q == F32Quantum(a, 1)
             low == a - (a % q)
             up == 2 * (a % q) > q \/ (2 * (a % q) = q /\ (low \div q) % 2 = 1)
             r == IF up THEN low + q ELSE low
         IN  Num(IF x.v < 0 THEN -r ELSE r)

\* (lo..hi).contains(&x) for whole lo and hi: false for NaN.
RangeContains(lo, hi, x) == ~x.nan /\ lo * Unit <= x.v /\ x.v < hi * Unit

\* The numbers the latitude and longitude inputs hold: whole degrees in and
\* out of both ranges, a fraction, the last numbers below 90 and 180, and NaN.
LatitudeInputs ==
    {NaN} \cup {Num(d * Unit) : d \in {-91, -90, 0, 89, 90, 100, 179, 180, 200}}
          \cup {Num(47 * Unit + Unit \div 2), Num(90 * Unit - 1)}
LongitudeInputs ==
    {NaN} \cup {Num(d * Unit) : d \in {-181, -180, 10, 179, 180, 500}}
          \cup {Num(180 * Unit - 1)}

\* The settings after WebRenderer::update: the latitude is taken when it is in
\* -90.0..90.0, the longitude when the latitude is in -180.0..180.0.
WebRenderer_update(self, latitude, longitude) ==
    LET s1 == IF RangeContains(-90, 90, latitude)
              THEN [self EXCEPT !.latitude = as_f32(latitude)] ELSE self
    IN  IF RangeContains(-180, 180, latitude)
        THEN [s1 EXCEPT !.longitude = as_f32(longitude)] ELSE s1

\* web_renderer.update(canvas, time, tz, scale, latitude, longitude, ...): the
\* two settings are written first; the rest (the scale check, the time, the
\* rendering) succeeds or fails without touching them.
WebUpdate(latitude, longitude, rest) ==
    /\ webSettings' = WebRenderer_update(webSettings, latitude, longitude)
    /\ webCall' = [op |-> "update", latitude |-> latitude, longitude |-> longitude,
                   rest |-> rest]
    /\ UNCHANGED <<crcVars, drvVars, commVars, histVars, atmoVars, lmVars, ptVars,
                   ctxVars>>

NextWeb ==
    \E latitude \in LatitudeInputs, longitude \in LongitudeInputs,
       rest \in {"Ok", "Err"} :
       WebUpdate(latitude, longitude, rest)

SpecWeb == Init /\ [][NextWeb]_vars

----------------------------------------------------------------------------
(* SpecCtx: threads that share one Context and call cancel, is_cancelled,  *)
(* wait and wait_timeout on it again and again, interleaved at every lock,  *)
(* unlock, park and wake-up. A thread's place (thPc) is "idle" between calls, "lock" before  *)
(* it has the mutex, "locked" with the mutex and the body ahead, "notify"   *)
(* and "unlock" inside cancel, "parked" inside the condition variable's     *)
(* wait, "woken" after it, before the mutex is taken again.                *)

CtxOps == {"cancel", "is_cancelled", "wait", "wait_timeout"}

\* A bool as a thread's return value.
BoolRet(b) == IF b THEN "true" ELSE "false"

\* A thread begins a call on its clone of the Context.
CtxStart(t, o) ==
    /\ thPc[t] = "idle"
    /\ thOp' = [thOp EXCEPT ![t] = o]
    /\ thPc' = [thPc EXCEPT ![t] = "lock"]
    /\ thRet' = [thRet EXCEPT ![t] = "none"]
    /\ thExpired' = [thExpired EXCEPT ![t] = FALSE]
    /\ UNCHANGED <<cancelled, lock, blocked>>
    /\ UNCHANGED <<crcVars, drvVars, commVars, histVars, atmoVars, lmVars, ptVars,
                   webVars>>

\* self.cancelled.lock(), and the taking of the mutex again at the end of
\* Condvar::wait / wait_timeout.
CtxLock(t) ==
    /\ thPc[t] \in {"lock", "woken"}
    /\ lock = 0
    /\ lock' = t
    /\ thPc' = [thPc EXCEPT ![t] = "locked"]
    /\ UNCHANGED <<cancelled, blocked, thOp, thRet, thExpired>>
    /\ UNCHANGED <<crcVars, drvVars, commVars, histVars, atmoVars, lmVars, ptVars,
                   webVars>>

\* Variant of cancel's assignment that flips the flag.
CancelSet_toggle(t) ==
    /\ thOp[t] = "cancel"
    /\ thPc[t] = "locked"
    /\ cancelled' = ~cancelled
    /\ thPc' = [thPc EXCEPT ![t] = "notify"]
    /\ UNCHANGED <<lock, blocked, thOp, thRet, thExpired>>
    /\ UNCHANGED <<crcVars, drvVars, commVars, histVars, atmoVars, lmVars, ptVars,
                   webVars>>

\* cancel: *g = true.
CancelSet(t) ==
    /\ thOp[t] = "cancel"
    /\ thPc[t] = "locked"
    /\ cancelled' = TRUE
    /\ thPc' = [thPc EXCEPT ![t] = "notify"]
    /\ UNCHANGED <<lock, blocked, thOp, thRet, thExpired>>
    /\ UNCHANGED <<crcVars, drvVars, commVars, histVars, atmoVars, lmVars, ptVars,
                   webVars>>

\* Variant of cancel's notification that wakes one parked thread only
\* (notify_one).
CancelNotify_one(t) ==
    /\ thPc[t] = "notify"
    /\ \/ /\ blocked = {}
          /\ thPc' = [thPc EXCEPT ![t] = "unlock"]
          /\ UNCHANGED blocked
       \/ \E u \in blocked :
             /\ blocked' = blocked \ {u}
             /\ thPc' = [thPc EXCEPT ![t] = "unlock", ![u] = "woken"]
    /\ UNCHANGED <<cancelled, lock, thOp, thRet, thExpired>>
    /\ UNCHANGED <<crcVars, drvVars, commVars, histVars, atmoVars, lmVars, ptVars,
                   webVars>>

\* cancel: self.cv.notify_all(), with the mutex still held.
CancelNotify(t) ==
    /\ thPc[t] = "notify"
    /\ blocked' = {}
    /\ thPc' = [u \in Threads |-> IF u = t THEN "unlock"
                                 ELSE IF u \in blocked THEN "woken"
                                 ELSE thPc[u]]
    /\ UNCHANGED <<cancelled, lock, thOp, thRet, thExpired>>
    /\ UNCHANGED <<crcVars, drvVars, commVars, histVars, atmoVars, lmVars, ptVars,
                   webVars>>

\* cancel returns: its guard is dropped.
CancelReturn(t) ==
    /\ thPc[t] = "unlock"
    /\ lock' = 0
    /\ thPc' = [thPc EXCEPT ![t] = "idle"]
    /\ thRet' = [thRet EXCEPT ![t] = "unit"]
    /\ UNCHANGED <<cancelled, blocked, thOp, thExpired>>
    /\ UNCHANGED <<crcVars, drvVars, commVars, histVars, atmoVars, lmVars, ptVars,
                   webVars>>

\* is_cancelled: the flag is read under the mutex, the temporary guard is
\* dropped and the value returned.
IsCancelledReturn(t) ==
    /\ thOp[t] = "is_cancelled"
    /\ thPc[t] = "locked"
    /\ lock' = 0
    /\ thPc' = [thPc EXCEPT ![t] = "idle"]
    /\ thRet' = [thRet EXCEPT ![t] = BoolRet(cancelled)]
    /\ UNCHANGED <<cancelled, blocked, thOp, thExpired>>
    /\ UNCHANGED <<crcVars, drvVars, commVars, histVars, atmoVars, lmVars, ptVars,
                   webVars>>

\* wait: wait_while finds the flag set; the guard is dropped and wait returns.
WaitReturn(t) ==
    /\ thOp[t] = "wait"
    /\ thPc[t] = "locked"
    /\ cancelled
    /\ lock' = 0
    /\ thPc' = [thPc EXCEPT ![t] = "idle"]
    /\ thRet' = [thRet EXCEPT ![t] = "unit"]
    /\ UNCHANGED <<cancelled, blocked, thOp, thExpired>>
    /\ UNCHANGED <<crcVars, drvVars, commVars, histVars, atmoVars, lmVars, ptVars,
                   webVars>>

\* wait: wait_while finds the flag clear and waits on the condition variable,
\* which releases the mutex and parks the thread in one step.
WaitPark(t) ==
    /\ thOp[t] = "wait"
    /\ thPc[t] = "locked"
    /\ ~cancelled
    /\ lock' = 0
    /\ blocked' = blocked \cup {t}
    /\ thPc' = [thPc EXCEPT ![t] = "parked"]
    /\ UNCHANGED <<cancelled, thOp, thRet, thExpired>>
    /\ UNCHANGED <<crcVars, drvVars, commVars, histVars, atmoVars, lmVars, ptVars,
                   webVars>>

\* Variant of wait_timeout's return that answers whether the wait ended
\* before the duration did, instead of the flag.
TimeoutReturn_not_timed_out(t) ==
    /\ thOp[t] = "wait_timeout"
    /\ thPc[t] = "locked"
    /\ cancelled \/ thExpired[t]
    /\ lock' = 0
    /\ thPc' = [thPc EXCEPT ![t] = "idle"]
    /\ thRet' = [thRet EXCEPT ![t] = BoolRet(~thExpired[t])]
    /\ UNCHANGED <<cancelled, blocked, thOp, thExpired>>
    /\ UNCHANGED <<crcVars, drvVars, commVars, histVars, atmoVars, lmVars, ptVars,
                   webVars>>

\* wait_timeout: wait_timeout_while finds the flag set, or finds it clear and
\* no time left; *v is read, the guard is dropped and the value returned.
TimeoutReturn(t) ==
    /\ thOp[t] = "wait_timeout"
    /\ thPc[t] = "locked"
    /\ cancelled \/ thExpired[t]
    /\ lock' = 0
    /\ thPc' = [thPc EXCEPT ![t] = "idle"]
    /\ thRet' = [thRet EXCEPT ![t] = BoolRet(cancelled)]
    /\ UNCHANGED <<cancelled, blocked, thOp, thExpired>>
    /\ UNCHANGED <<crcVars, drvVars, commVars, histVars, atmoVars, lmVars, ptVars,
                   webVars>>

\* wait_timeout: the flag is clear and time is left; the thread waits on the
\* condition variable for the rest of the duration.
TimeoutPark(t) ==
    /\ thOp[t] = "wait_timeout"
    /\ thPc[t] = "locked"
    /\ ~cancelled
    /\ ~thExpired[t]
    /\ lock' = 0
    /\ blocked' = blocked \cup {t}
    /\ thPc' = [thPc EXCEPT ![t] = "parked"]
    /\ UNCHANGED <<cancelled, thOp, thRet, thExpired>>
    /\ UNCHANGED <<crcVars, drvVars, commVars, histVars, atmoVars, lmVars, ptVars,
                   webVars>>

\* A parked thread wakes up without a notification (Condvar allows it).
Spurious(t) ==
    /\ thPc[t] = "parked"
    /\ blocked' = blocked \ {t}
    /\ thPc' = [thPc EXCEPT ![t] = "woken"]
    /\ UNCHANGED <<cancelled, lock, thOp, thRet, thExpired>>
    /\ UNCHANGED <<crcVars, drvVars, commVars, histVars, atmoVars, lmVars, ptVars,
                   webVars>>

\* The duration of a thread's wait_timeout runs out, at any point of the call;
\* a parked thread is woken by it.
Expire(t) ==
    /\ thOp[t] = "wait_timeout"
    /\ thPc[t] # "idle"
    /\ ~thExpired[t]
    /\ thExpired' = [thExpired EXCEPT ![t] = TRUE]
    /\ blocked' = blocked \ {t}
    /\ thPc' = [thPc EXCEPT ![t] = IF @ = "parked" THEN "woken" ELSE @]
    /\ UNCHANGED <<cancelled, lock, thOp, thRet>>
    /\ UNCHANGED <<crcVars, drvVars, commVars, histVars, atmoVars, lmVars, ptVars,
                   webVars>>

\* The steps of a thread that holds the mutex or needs nothing to go on.
CtxRun(t) ==
    \/ CancelSet(t)
    \/ CancelNotify(t)
    \/ CancelReturn(t)
    \/ IsCancelledReturn(t)
    \/ WaitReturn(t)
    \/ WaitPark(t)
    \/ TimeoutReturn(t)
    \/ TimeoutPark(t)

NextCtx ==
    \E t \in Threads :
        \/ \E o \in CtxOps : CtxStart(t, o)
        \/ CtxLock(t)
        \/ CtxRun(t)
        \/ Spurious(t)
        \/ Expire(t)

SpecCtx == Init /\ [][NextCtx]_vars

\* The scheduling: a thread that can run does run, a thread that asks for the
\* mutex gets it at some point when it is free again and again, and a
\* duration runs out.
CtxFairness ==
    \A t \in Threads :
        /\ WF_vars(CtxRun(t))
        /\ SF_vars(CtxLock(t))
        /\ WF_vars(Expire(t))

SpecCtxFair == SpecCtx /\ CtxFairness

----------------------------------------------------------------------------
(* Reference definitions the properties are stated with.                   *)

\* Bitwise exclusive or of two naturals of any width.
RECURSIVE XorN(_, _)
XorN(a, b) ==
    IF a = 0 THEN b
    ELSE IF b = 0 THEN a
    ELSE ((a + b) % 2) + 2 * XorN(a \div 2, b \div 2)

\* The remainder of the polynomial r (bits 23..0) modulo x^8 + x^5 + x^4 + 1
\* (0x131), cancelling the bits from i down to 8.
RECURSIVE PolyRem(_, _)
PolyRem(r, i) ==
    IF i < 8 THEN r
    ELSE PolyRem(IF Bit(r, i) = 1 THEN XorN(r, 305 * (2 ^ (i - 8))) ELSE r, i - 1)

\* The CRC-8 of the two bytes hi, lo with polynomial 0x31, initial value 0xFF,
\* no reflection and no final XOR, as a polynomial division: the initial value
\* is folded into the first byte and the message is multiplied by x^8.
RefCrc8(hi, lo) == PolyRem((XorN(hi, 255) * 256 + lo) * 256, 23)

\* The four bytes, most significant first, of a binary32 given by its fields.
F32Bytes(f) ==
    <<f.sign * 128 + f.exponent \div 2,
      (f.exponent % 2) * 128 + f.fraction \div 65536,
      (f.fraction \div 256) % 256,
      f.fraction % 256>>

\* m * 2^e with m odd (or zero).
RECURSIVE Dyadic(_, _)
Dyadic(m, e) ==
    IF m # 0 /\ m % 2 = 0 THEN Dyadic(m \div 2, e + 1) ELSE [m |-> m, e |-> e]

\* The value of a positive normal binary32: (2^23 + fraction) * 2^(exponent - 150).
F32Value(f) == Dyadic(8388608 + f.fraction, f.exponent - 150)

\* A log entry is a successful write of these bytes / a successful read of n bytes.
IsWrite(t, bytes) == t.op = "write" /\ t.ok /\ t.bytes = bytes /\ t.len = Len(bytes)
IsRead(t, n) == t.op = "read" /\ t.ok /\ t.len = n /\ Len(t.bytes) = n

\* The command identifier a written frame starts with (<<>> for a read).
CommandOf(t) == IF t.op = "write" /\ t.len >= 2 THEN SubSeq(t.bytes, 1, 2) ELSE <<>>

\* The word the device answers GetDataReady with in the call made last.
ReadyWordOf(c) == c.replies[1][1] * 256 + c.replies[1][2]

\* The 18 bytes the device answers ReadMeasurement with in the call made last.
DataOf(c) == c.replies[2]

ValidPeriod(c) == c.period.secs >= 2 /\ c.period.secs <= 1800

----------------------------------------------------------------------------
(* The properties.                                                         *)

\* C1: checksum round trip: for every 16-bit word w, check applied to the three
\* bytes add(w) produced returns Ok(w).
C1_RoundTrip ==
    (crcPc = "checked" /\ crcIn.kind = "word")
        => crcRes = [kind |-> "Ok", word |-> crcIn.word]

C1_Witness ==
    /\ crcPc = "checked"
    /\ crcIn = WordInput(48879)
    /\ crcOut = <<190, 239, 146>>
    /\ crcRes.kind = "Ok"

\* C2: add(w) is [high byte of w, low byte of w, c], c the CRC-8 (polynomial
\* 0x31, initial 0xFF, unreflected, no final XOR) of those two bytes; and
\* add(0xBEEF) = [0xBE, 0xEF, 0x92].
C2_AddFormat ==
    (crcPc = "added")
        => /\ crcOut = <<crcIn.word \div 256, crcIn.word % 256,
                         RefCrc8(crcIn.word \div 256, crcIn.word % 256)>>
           /\ crcIn.word = 48879 => crcOut = <<190, 239, 146>>

C2_Witness ==
    /\ crcPc = "added"
    /\ crcIn.word = 48879
    /\ crcOut[3] = 146

\* C3: check([b0, b1, c]) is Ok(b0 * 256 + b1) exactly when the CRC of [b0, b1]
\* equals c, and otherwise InvalidCRC with the computed and the received
\* checksum; check([0xBE, 0xEF, 0x92]) = Ok(0xBEEF), and check([0xBE, 0xEF, 0x91])
\* fails with computed 0x92 and received 0x91.
C3_CheckVerdict ==
    (crcPc = "checked" /\ crcIn.kind = "raw")
        => LET raw == crcIn.raw
               c == RefCrc8(raw[1], raw[2])
           IN  /\ (crcRes.kind = "Ok") <=> (c = raw[3])
               /\ c = raw[3] => crcRes = [kind |-> "Ok", word |-> raw[1] * 256 + raw[2]]
               /\ c # raw[3] => crcRes = [kind |-> "InvalidCRC", computed |-> c,
                                          received |-> raw[3]]
               /\ raw = <<190, 239, 146>> => crcRes = [kind |-> "Ok", word |-> 48879]
               /\ raw = <<190, 239, 145>>
                    => crcRes = [kind |-> "InvalidCRC", computed |-> 146,
                                 received |-> 145]

C3_Witness ==
    /\ crcPc = "checked"
    /\ crcIn = RawInput(<<190, 239, 145>>)
    /\ crcRes.kind = "InvalidCRC"

\* C4: new returns InvalidArgument exactly when the period's whole seconds are
\* outside 2..=1800 (1 and 1801 rejected, 2 and 1800 accepted), and a rejected
\* new performs no bus write and no bus read.
C4_NewValidatesPeriod ==
    (call.op = "new")
        => /\ (result.kind = "InvalidArgument") <=> ~ValidPeriod(call)
           /\ result.kind = "InvalidArgument" => traffic = <<>>
           /\ call.period.secs \in {1, 1801} => result.kind = "InvalidArgument"
           /\ call.period.secs \in {2, 1800} => result.kind # "InvalidArgument"

C4_Witness ==
    /\ call.op = "new"
    /\ call.period.secs = 1801
    /\ result.kind = "InvalidArgument"
    /\ traffic = <<>>

\* C5: for a valid period p and a bus that does not fail, new performs exactly
\* two bus writes and no read: [0x46, 0x00, pHi, pLo, crc(p)] and then
\* [0x00, 0x10, 0x00, 0x00, crc(0)], and returns a handle whose
\* continuous_enabled is true.
C5_NewFrames ==
    (call.op = "new" /\ ValidPeriod(call) /\ call.failAt \notin {1, 2})
        => LET p == call.period.secs
           IN  /\ Len(traffic) = 2
               /\ IsWrite(traffic[1],
                          <<70, 0, p \div 256, p % 256, RefCrc8(p \div 256, p % 256)>>)
               /\ IsWrite(traffic[2], <<0, 16, 0, 0, RefCrc8(0, 0)>>)
               /\ result.kind = "Ok"
               /\ handle = "live"
               /\ continuous_enabled

C5_Witness ==
    /\ call.op = "new"
    /\ call.period.secs = 10
    /\ call.failAt = 0
    /\ Len(traffic) = 2
    /\ handle = "live"
    /\ continuous_enabled

\* C6: a bus write that fails during new makes new return I2cWrite and no
\* handle; when the SetContinuousInterval write fails no StartContinuous frame
\* is sent, and when the StartContinuous write fails no handle with
\* continuous_enabled = true exists.
C6_NewWriteFailure ==
    (call.op = "new" /\ ValidPeriod(call) /\ call.failAt \in {1, 2})
        => /\ result = [kind |-> "I2cWrite", err |-> call.err]
           /\ handle = "none"
           /\ ~continuous_enabled
           /\ Len(traffic) = call.failAt
           /\ ~traffic[call.failAt].ok
           /\ call.failAt = 1
                => \A i \in DOMAIN traffic : CommandOf(traffic[i]) # <<0, 16>>

C6_Witness ==
    /\ call.op = "new"
    /\ call.failAt = 2
    /\ result.kind = "I2cWrite"
    /\ Len(traffic) = 2
    /\ handle = "none"

\* C7: when the word read back after GetDataReady is not 1, sample returns
\* NotReady and its bus traffic is one write of [0x02, 0x02] and one read of 3
\* bytes: no ReadMeasurement frame, no 18-byte read.
C7_NotReady ==
    (call.op = "sample" /\ call.failAt \notin {1, 2} /\ ReadyWordOf(call) # 1)
        => /\ result = [kind |-> "NotReady"]
           /\ Len(traffic) = 2
           /\ IsWrite(traffic[1], <<2, 2>>)
           /\ IsRead(traffic[2], 3)

C7_Witness ==
    /\ call.op = "sample"
    /\ ReadyWordOf(call) = 65535
    /\ result.kind = "NotReady"
    /\ Len(traffic) = 2

\* C8: when the ready word is 1 and the bus does not fail, sample returns Ok with
\* co2, temperature and humidity the big-endian 32-bit patterns of received bytes
\* (0,1,3,4), (6,7,9,10), (12,13,15,16): the 18 bytes without every third one;
\* the reply for 400.0, 21.5, 45.0 gives those three values.
C8_SampleDecoding ==
    (call.op = "sample" /\ call.failAt = 0 /\ ReadyWordOf(call) = 1)
        => LET d == DataOf(call)
           IN  /\ result.kind = "Ok"
               /\ F32Bytes(result.sample.co2) = <<d[1], d[2], d[4], d[5]>>
               /\ F32Bytes(result.sample.temperature) = <<d[7], d[8], d[10], d[11]>>
               /\ F32Bytes(result.sample.humidity) = <<d[13], d[14], d[16], d[17]>>
               /\ <<d[1], d[2], d[4], d[5], d[7], d[8], d[10], d[11],
                    d[13], d[14], d[16], d[17]>>
                    = <<67, 200, 0, 0, 65, 172, 0, 0, 66, 52, 0, 0>>
                  => /\ result.sample.co2.sign = 0
                     /\ result.sample.temperature.sign = 0
                     /\ result.sample.humidity.sign = 0
                     /\ F32Value(result.sample.co2) = [m |-> 25, e |-> 4]
                     /\ F32Value(result.sample.temperature) = [m |-> 43, e |-> -1]
                     /\ F32Value(result.sample.humidity) = [m |-> 45, e |-> 0]

C8_Witness ==
    /\ call.op = "sample"
    /\ call.failAt = 0
    /\ ReadyWordOf(call) = 1
    /\ result.kind = "Ok"
    /\ F32Value(result.sample.co2) = [m |-> 25, e |-> 4]
    /\ F32Value(result.sample.temperature) = [m |-> 43, e |-> -1]

\* C9: a successful sample issues exactly four bus transactions: write
\* [0x02, 0x02], read 3 bytes, write [0x03, 0x00], read 18 bytes; and in every
\* call the measurement is requested and read only after a 3-byte read that
\* delivered the word 1.
C9_SampleOrder ==
    (call.op = "sample")
        => /\ result.kind = "Ok"
                => /\ Len(traffic) = 4
                   /\ IsWrite(traffic[1], <<2, 2>>)
                   /\ IsRead(traffic[2], 3)
                   /\ IsWrite(traffic[3], <<3, 0>>)
                   /\ IsRead(traffic[4], 18)
           /\ \A i \in DOMAIN traffic :
                (traffic[i].len = 18 \/ CommandOf(traffic[i]) = <<3, 0>>)
                    => \E j \in 1..(i - 1) :
                          /\ IsRead(traffic[j], 3)
                          /\ traffic[j].bytes[1] * 256 + traffic[j].bytes[2] = 1

C9_Witness ==
    /\ call.op = "sample"
    /\ result.kind = "Ok"
    /\ Len(traffic) = 4
    /\ traffic[4].bytes[1] = 1
    /\ traffic[4].bytes[2] = 2

\* C10: if the k-th bus transaction of sample fails (k in 1..4), sample returns
\* I2cWrite with the bus's error when it was a write (k odd) and I2cRead with it
\* when it was a read (k even), and issues no later transaction.
C10_SampleBusFailure ==
    (/\ call.op = "sample"
     /\ call.failAt \in 1..4
     /\ call.failAt > 2 => ReadyWordOf(call) = 1)
        => LET k == call.failAt
           IN  /\ Len(traffic) = k
               /\ ~traffic[k].ok
               /\ \A j \in 1..(k - 1) : traffic[j].ok
               /\ traffic[k].op = IF k % 2 = 1 THEN "write" ELSE "read"
               /\ result = [kind |-> IF k % 2 = 1 THEN "I2cWrite" ELSE "I2cRead",
                            err |-> call.err]

C10_Witness ==
    /\ call.op = "sample"
    /\ call.failAt = 4
    /\ result = [kind |-> "I2cRead", err |-> "ArbitrationLoss"]
    /\ Len(traffic) = 4

\* The caller can issue a sample / a stop through the handle it holds.
CanSample ==
    ENABLED (\E failAt \in 0..MaxFailAt, err \in BusErrors,
                ready \in ReadyReplies, data \in DataReplies :
                Sample(failAt, err, ready, data))
CanStop == ENABLED (\E failAt \in 0..MaxFailAt, err \in BusErrors : Stop(failAt, err))

\* C11: stop writes exactly one 2-byte frame [0x01, 0x04]. When the write
\* succeeds it returns Ok and the handle is consumed: no sample and no stop can
\* be issued through it. When the write fails it returns I2cWrite with the same
\* handle, whose continuous_enabled is still true and on which stop and sample
\* can be called again.
C11_Stop ==
    (call.op = "stop")
        => /\ Len(traffic) = 1
           /\ traffic[1].op = "write"
           /\ traffic[1].bytes = <<1, 4>>
           /\ traffic[1].len = 2
           /\ traffic[1].ok <=> (call.failAt # 1)
           /\ traffic[1].ok
                => /\ result = [kind |-> "Ok"]
                   /\ handle = "consumed"
                   /\ ~CanSample
                   /\ ~CanStop
           /\ ~traffic[1].ok
                => /\ result = [kind |-> "I2cWrite", err |-> call.err]
                   /\ handle = "live"
                   /\ continuous_enabled
                   /\ CanSample
                   /\ CanStop

C11_Witness ==
    /\ call.op = "stop"
    /\ call.failAt = 1
    /\ result.kind = "I2cWrite"
    /\ handle = "live"
    /\ continuous_enabled

\* C12: continuous_enabled is true exactly while the caller holds a handle; it
\* becomes true only by a new whose StartContinuous write succeeded, becomes
\* false only by a stop whose StopContinuous write succeeded, and no sample,
\* successful or failing, changes it.
C12_FlagStep ==
    /\ (handle' = "live") <=> continuous_enabled'
    /\ (~continuous_enabled /\ continuous_enabled')
          => /\ call'.op = "new"
             /\ result'.kind = "Ok"
             /\ Len(traffic') = 2
             /\ IsWrite(traffic'[2], <<0, 16, 0, 0, RefCrc8(0, 0)>>)
    /\ (continuous_enabled /\ ~continuous_enabled')
          => /\ call'.op = "stop"
             /\ result'.kind = "Ok"
             /\ IsWrite(traffic'[1], <<1, 4>>)
    /\ call'.op = "sample" => continuous_enabled' = continuous_enabled

C12_ContinuousEnabled ==
    /\ (handle = "live") <=> continuous_enabled
    /\ [][C12_FlagStep]_vars

C12_Witness ==
    /\ call.op = "sample"
    /\ result.kind = "I2cRead"
    /\ handle = "live"
    /\ continuous_enabled

----------------------------------------------------------------------------
(* Claims about the framer (I2cComm) and the command table.                *)

\* The frame the sensor expects for a command and an optional data word:
\* the command big-endian, then the word big-endian and its checksum.
ExpectedFrame(command, data) ==
    LET head == <<command \div 256, command % 256>>
    IN  IF data.some
        THEN head \o <<data.v \div 256, data.v % 256,
                       RefCrc8(data.v \div 256, data.v % 256)>>
        ELSE head

\* C13: I2cComm::send performs exactly one bus write, addressed to 0x61; the
\* write carries the 2 bytes [cmdHi, cmdLo] when there is no data and the 5
\* bytes [cmdHi, cmdLo, dataHi, dataLo, crc(dataHi, dataLo)] when there is;
\* no other length is ever written, whether or not the write succeeds.
C13_SendFrame ==
    commCall.op = "send" =>
        /\ Len(commOut.log) = 1
        /\ commOut.log[1].op = "write"
        /\ commOut.log[1].address = 97
        /\ commOut.log[1].bytes = ExpectedFrame(commCall.command, commCall.data)
        /\ commOut.log[1].len = Len(commOut.log[1].bytes)
        /\ commOut.log[1].len = (IF commCall.data.some THEN 5 ELSE 2)
        /\ commOut.log[1].len \in {2, 5}

C13_Witness ==
    /\ commCall.op = "send"
    /\ commCall.command = 514
    /\ commCall.data = None
    /\ commOut.res.kind = "Ok"
    /\ commOut.log = <<[op |-> "write", address |-> 97, len |-> 2,
                        bytes |-> <<2, 2>>, ok |-> TRUE]>>

\* C14: I2cComm::read for n words (1 <= n <= 6, a buffer of 2n bytes)
\* performs exactly one bus read, of 3n bytes, addressed to 0x61; when the
\* read succeeds, output bytes 2i and 2i+1 are received bytes 3i and 3i+1 for
\* every word i, and the buffer keeps its length.
C14_ReadWords ==
    (commCall.op = "read" /\ commCall.len % 2 = 0
        /\ commCall.len >= 2 /\ commCall.len <= 12) =>
        LET n == commCall.len \div 2
        IN  /\ Len(commOut.log) = 1
            /\ commOut.log[1].op = "read"
            /\ commOut.log[1].address = 97
            /\ commOut.log[1].len = 3 * n
            /\ commOut.log[1].ok =>
                  /\ commOut.res.kind = "Ok"
                  /\ Len(commOut.data) = 2 * n
                  /\ \A i \in 0..(n - 1) :
                        /\ commOut.data[2 * i + 1] = commCall.reply[3 * i + 1]
                        /\ commOut.data[2 * i + 2] = commCall.reply[3 * i + 2]

C14_Witness ==
    /\ commCall.op = "read"
    /\ commCall.len = 12
    /\ commCall.fill = 170
    /\ commOut.res.kind = "Ok"
    /\ commOut.log[1].len = 18
    /\ commOut.data = <<1, 2, 3, 4, 5, 6, 7, 8, 9, 10, 11, 12>>

\* TRUE iff word i (from 0) of a reply carries a checksum byte that is not the
\* CRC-8 of its two data bytes.
Mismatch(reply, i) ==
    RefCrc8(reply[3 * i + 1], reply[3 * i + 2]) # reply[3 * i + 3]

C16_ReadPanics ==
    (commCall.op = "read" /\ (commCall.len = 0 \/ commCall.len > 12)) =>
        /\ commOut.res.kind = "Panic"
        /\ commOut.log = <<>>

C16_Witness ==
    /\ commCall.op = "read"
    /\ commCall.len = 13
    /\ commOut.res.kind = "Panic"
    /\ commOut.log = <<>>

\* The identifiers of the commands, by variant.
CommandId(name) ==
    CASE name = "StartContinuous" -> 16                  \* 0x0010
      [] name = "StopContinuous" -> 260                  \* 0x0104
      [] name = "SetContinuousInterval" -> 17920         \* 0x4600
      [] name = "GetDataReady" -> 514                    \* 0x0202
      [] name = "ReadMeasurement" -> 768                 \* 0x0300
      [] name = "SetAutomaticSelfCalibration" -> 21254   \* 0x5306
      [] name = "SetForcedRecalibration" -> 20996        \* 0x5204
      [] name = "SetTemperatureOffset" -> 21507          \* 0x5403
      [] name = "SetAltitude" -> 20738                   \* 0x5102
      [] name = "SoftReset" -> 54020                     \* 0xD304

\* C17: Command::command gives every variant its identifier (StartContinuous
\* 0x0010, StopContinuous 0x0104, SetContinuousInterval 0x4600, GetDataReady
\* 0x0202, ReadMeasurement 0x0300, SetAutomaticSelfCalibration 0x5306,
\* SetForcedRecalibration 0x5204, SetTemperatureOffset 0x5403, SetAltitude
\* 0x5102, SoftReset 0xD304); two commands have the same identifier exactly
\* when they are the same variant, whatever their arguments; and the
\* identifier is what run_command puts first on the bus.
C17_CommandIds ==
    commCall.op = "run" =>
        /\ commOut.command = CommandId(commCall.cmd.name)
        /\ \A c \in Commands :
              (Command_command(c) = commOut.command) <=> (c.name = commCall.cmd.name)
        /\ CommandOf(commOut.log[1]) =
              <<commOut.command \div 256, commOut.command % 256>>

C17_Witness ==
    /\ commCall.op = "run"
    /\ commCall.cmd = SetAltitude(400)
    /\ commOut.command = 20738
    /\ CommandOf(commOut.log[1]) = <<81, 2>>

\* The payload of a command, by variant.
CommandPayload(cmd) ==
    CASE cmd.name = "StartContinuous" -> Some(0)
      [] cmd.name \in {"SetContinuousInterval", "SetForcedRecalibration",
                       "SetTemperatureOffset", "SetAltitude"} -> Some(cmd.arg)
      [] cmd.name = "SetAutomaticSelfCalibration" -> Some(IF cmd.flag THEN 1 ELSE 0)
      [] cmd.name \in {"StopContinuous", "GetDataReady", "ReadMeasurement",
                       "SoftReset"} -> None

\* C18: Command::data is Some(0) for StartContinuous, Some(v) for
\* SetContinuousInterval, SetForcedRecalibration, SetTemperatureOffset and
\* SetAltitude with argument v, Some(0) / Some(1) for
\* SetAutomaticSelfCalibration(false / true), and None for StopContinuous,
\* GetDataReady, ReadMeasurement and SoftReset; so run_command writes a
\* 5-byte frame for the former and a 2-byte frame for the latter.
C18_CommandData ==
    commCall.op = "run" =>
        /\ commOut.payload = CommandPayload(commCall.cmd)
        /\ Len(commOut.log) = 1
        /\ commOut.log[1].op = "write"
        /\ commOut.log[1].len = (IF CommandPayload(commCall.cmd).some THEN 5 ELSE 2)
        /\ commOut.log[1].bytes =
              ExpectedFrame(CommandId(commCall.cmd.name), CommandPayload(commCall.cmd))

C18_Witness ==
    /\ commCall.op = "run"
    /\ commCall.cmd = SetAutomaticSelfCalibration(TRUE)
    /\ commOut.payload = Some(1)
    /\ commOut.res.kind = "Ok"
    /\ commOut.log[1].len = 5
    /\ commOut.log[1].bytes = <<83, 6, 0, 1, RefCrc8(0, 1)>>

\* C19: Command::data_bytes is 2 (one word) for GetDataReady, 12 (six words)
\* for ReadMeasurement and 0 for every other command; the driver reads from
\* the bus only right after writing GetDataReady, 3 bytes, and right after
\* writing ReadMeasurement, 18 bytes; no read on the bus is longer than 18
\* bytes.
C19_ReplyLengths ==
    /\ commCall.op = "run" =>
          commOut.data_bytes =
              (CASE commCall.cmd.name = "GetDataReady" -> 2
                 [] commCall.cmd.name = "ReadMeasurement" -> 12
                 [] OTHER -> 0)
    /\ \A i \in DOMAIN traffic :
          traffic[i].op = "read" =>
              /\ i > 1
              /\ call.op = "sample"
              /\ \/ traffic[i].len = 3 /\ CommandOf(traffic[i - 1]) = <<2, 2>>
                 \/ traffic[i].len = 18 /\ CommandOf(traffic[i - 1]) = <<3, 0>>
    /\ \A i \in DOMAIN commOut.log : commOut.log[i].len <= 18

C19_Witness ==
    /\ call.op = "sample"
    /\ Len(traffic) = 4
    /\ CommandOf(traffic[1]) = <<2, 2>>
    /\ traffic[2].op = "read" /\ traffic[2].len = 3
    /\ CommandOf(traffic[3]) = <<3, 0>>
    /\ traffic[4].op = "read" /\ traffic[4].len = 18 /\ ~traffic[4].ok

\* C20: InvalidArgument is returned only by new, NotReady and I2cRead only by
\* sample; new fails only with InvalidArgument or I2cWrite, stop fails only
\* with I2cWrite, and sample fails only with I2cWrite, I2cRead or NotReady.
C20_ErrorConfinement ==
    /\ result.kind = "InvalidArgument" => call.op = "new"
    /\ result.kind \in {"NotReady", "I2cRead"} => call.op = "sample"
    /\ call.op = "new" => result.kind \in {"Ok", "InvalidArgument", "I2cWrite"}
    /\ call.op = "stop" => result.kind \in {"Ok", "I2cWrite"}
    /\ call.op = "sample" => result.kind \in {"Ok", "I2cWrite", "I2cRead", "NotReady"}
    /\ call.op = "none" => result.kind = "None"

C20_Witness ==
    /\ call.op = "new"
    /\ call.failAt = 1
    /\ ValidPeriod(call)
    /\ result.kind = "I2cWrite"
    /\ Len(traffic) = 1

\* The number of transactions of kind op in a log.
CountOp(log, op) == Cardinality({i \in DOMAIN log : log[i].op = op})

\* C25: the driver never retries: one call of new issues at most 2 bus writes
\* and no read, one call of sample at most 2 writes and 2 reads, one call of
\* stop exactly 1 write; a failed transaction is the last one of its call and
\* its error is what the call returns; no command is written twice in a
\* call, and a reply with a wrong checksum is read once.
C25_NoRetry ==
    /\ call.op = "new" => CountOp(traffic, "write") <= 2 /\ CountOp(traffic, "read") = 0
    /\ call.op = "sample" =>
          CountOp(traffic, "write") <= 2 /\ CountOp(traffic, "read") <= 2
    /\ call.op = "stop" => Len(traffic) = 1 /\ traffic[1].op = "write"
    /\ \A i \in DOMAIN traffic :
          ~traffic[i].ok =>
              /\ i = Len(traffic)
              /\ result.kind = (IF traffic[i].op = "write" THEN "I2cWrite" ELSE "I2cRead")
              /\ result.err = call.err
    /\ \A i, j \in DOMAIN traffic :
          (i < j /\ traffic[i].op = "write" /\ traffic[j].op = "write") =>
              CommandOf(traffic[i]) # CommandOf(traffic[j])
    /\ (call.op = "sample" /\ call.failAt = 0 /\ Mismatch(call.replies[1], 0)) =>
          Cardinality({i \in DOMAIN traffic :
                          traffic[i].op = "read" /\ traffic[i].len = 3}) = 1
    /\ (call.op = "sample" /\ call.failAt = 0 /\ ReadyWordOf(call) = 1
           /\ \E w \in 0..5 : Mismatch(DataOf(call), w)) =>
          /\ Len(traffic) = 4
          /\ Cardinality({i \in DOMAIN traffic :
                             traffic[i].op = "read" /\ traffic[i].len = 18}) = 1

C25_Witness ==
    /\ call.op = "sample"
    /\ call.failAt = 3
    /\ Len(traffic) = 3
    /\ traffic[2].op = "read" /\ traffic[2].ok
    /\ ~traffic[3].ok
    /\ result.kind = "I2cWrite"

\* C27: for every output buffer length that passes the word-count assertions
\* of I2cComm::read (1 to 12 bytes, odd lengths included) and a bus read that
\* succeeds, read returns Ok and the buffer keeps its length (no index past
\* its end is used).
C27_OddBufferInBounds ==
    (commCall.op = "read" /\ commCall.len >= 1 /\ commCall.len <= 12
        /\ commCall.failAt = 0) =>
        /\ commOut.res.kind = "Ok"
        /\ Len(commOut.data) = commCall.len

\* The verdict on one received group, from its three bytes alone.
GroupVerdict(b0, b1, c) ==
    IF RefCrc8(b0, b1) = c
    THEN [kind |-> "Ok", word |-> b0 * 256 + b1]
    ELSE [kind |-> "InvalidCRC", computed |-> RefCrc8(b0, b1), received |-> c]

\* The groups of a reply whose checksum is wrong, among the first n.
BadGroups(reply, n) == {i \in 0..(n - 1) : Mismatch(reply, i)}

\* C26: checksums are per word and history-free: whatever was computed on an
\* SH30CRC instance before, add(word) returns the word's two bytes and their
\* CRC-8, and check(raw) gives the verdict of raw's three bytes alone; in a
\* multi-word read the reported mismatch is that of the first group whose own
\* three bytes disagree, whatever the groups before it held.
C26_HistoryFree ==
    /\ \A i \in DOMAIN instOps :
          LET o == instOps[i]
          IN  /\ o.op = "add" =>
                    o.out = <<o.word \div 256, o.word % 256,
                              RefCrc8(o.word \div 256, o.word % 256)>>
              /\ o.op = "check" => o.res = GroupVerdict(o.raw[1], o.raw[2], o.raw[3])
    /\ (commCall.op = "read" /\ commCall.len >= 1 /\ commCall.len <= 12
           /\ commCall.failAt = 0) =>
          LET n == (commCall.len + 1) \div 2
              bad == BadGroups(commCall.reply, n)
          IN  IF bad = {} THEN commOut.crc_err.kind = "None"
              ELSE LET i == CHOOSE k \in bad : \A m \in bad : k <= m
                   IN  commOut.crc_err =
                          GroupVerdict(commCall.reply[3 * i + 1],
                                       commCall.reply[3 * i + 2],
                                       commCall.reply[3 * i + 3])

C26_Witness ==
    /\ Len(instOps) = 3
    /\ instOps[1].op = "check" /\ instOps[1].raw = <<0, 0, 0>>
    /\ instOps[1].res.kind = "InvalidCRC"
    /\ instOps[2].op = "add" /\ instOps[2].word = 48879
    /\ instOps[2].out = <<190, 239, 146>>
    /\ instOps[3].op = "check" /\ instOps[3].raw = <<190, 239, 146>>
    /\ instOps[3].res = [kind |-> "Ok", word |-> 48879]

\* C21: the AtmosphereSampler adapter for SCD30 always returns a sample
\* stamped with the current time: when the driver's sample succeeds,
\* temperature, relative_humidity and co2_ppm are all present and are the
\* driver's temperature, humidity and co2 (the values the device sent); when
\* the driver's sample fails (NotReady or a bus error) all three are absent;
\* each call makes one driver sample call: GetDataReady is written once and
\* at most 4 transactions are issued.
C21_AtmosphereAdapter ==
    atmoCall.op = "sample" =>
        /\ atmoOut.sample.timestamp = atmoCall.now
        /\ atmoOut.res.kind \in {"Ok", "NotReady", "I2cWrite", "I2cRead"}
        /\ atmoOut.res.kind = "Ok" =>
              /\ atmoOut.sample.temperature = SomeF32(atmoOut.res.sample.temperature)
              /\ atmoOut.sample.relative_humidity = SomeF32(atmoOut.res.sample.humidity)
              /\ atmoOut.sample.co2_ppm = SomeF32(atmoOut.res.sample.co2)
              /\ LET d == atmoCall.replies[2]
                 IN  /\ F32Bytes(atmoOut.sample.co2_ppm.v) = <<d[1], d[2], d[4], d[5]>>
                     /\ F32Bytes(atmoOut.sample.temperature.v) =
                            <<d[7], d[8], d[10], d[11]>>
                     /\ F32Bytes(atmoOut.sample.relative_humidity.v) =
                            <<d[13], d[14], d[16], d[17]>>
        /\ atmoOut.res.kind # "Ok" =>
              /\ ~atmoOut.sample.temperature.some
              /\ ~atmoOut.sample.relative_humidity.some
              /\ ~atmoOut.sample.co2_ppm.some
        /\ ((\A i \in DOMAIN atmoOut.log : atmoOut.log[i].ok)
                /\ ReadyWordOf(atmoCall) = 1) <=> atmoOut.res.kind = "Ok"
        /\ Len(atmoOut.log) <= 4
        /\ Cardinality({i \in DOMAIN atmoOut.log :
                           CommandOf(atmoOut.log[i]) = <<2, 2>>}) = 1

C21_Witness ==
    /\ atmoCall.op = "sample"
    /\ atmoCall.now = 2
    /\ atmoOut.res.kind = "NotReady"
    /\ atmoOut.sample = [AtmosphereSample_default EXCEPT !.timestamp = 2]
    /\ Len(atmoOut.log) = 2

\* The update calls that supplied a value.
Supplied == {i \in DOMAIN updates : updates[i].new.some}

\* C29, the state part: the slot is Some exactly when at least one update call
\* supplied a value, and then holds the supplied value with the greatest
\* timestamp, the earliest-supplied one among equal timestamps.
C29_SlotContent ==
    /\ slot.some <=> Supplied # {}
    /\ slot.some =>
          \E i \in Supplied :
              /\ \A j \in Supplied :
                    \/ updates[j].time < updates[i].time
                    \/ updates[j].time = updates[i].time /\ i <= j
              /\ slot = SomeMeasurement(updates[i].time, updates[i].new.v)

\* C29, the step part: a call that supplies no value, or a value whose
\* timestamp is not strictly newer, leaves the slot unchanged; a slot never
\* goes from Some back to None and its timestamp never decreases.
C29_SlotStep ==
    LET c == updates'[Len(updates')]
    IN  updates' # updates =>
            /\ (~c.new.some \/ (slot.some /\ c.time <= slot.at)) => slot' = slot
            /\ slot.some => slot'.some /\ slot'.at >= slot.at
            /\ (c.new.some /\ (~slot.some \/ c.time > slot.at)) =>
                  slot' = SomeMeasurement(c.time, c.new.v)

\* C29: after any sequence of LastMeasurement::update calls on one slot, the
\* slot is Some exactly when a call supplied a value and holds the supplied
\* value with the greatest timestamp (the earliest-supplied among equal
\* ones); a call with no value or with a timestamp not strictly newer leaves
\* it unchanged, so it never returns to None and its timestamp never
\* decreases.
C29_LastMeasurement == []C29_SlotContent /\ [][C29_SlotStep]_vars

C29_Witness ==
    /\ Len(updates) = 3
    /\ updates[1] = [time |-> 1, new |-> Some(10)]
    /\ updates[2] = [time |-> 1, new |-> Some(20)]
    /\ updates[3] = [time |-> 0, new |-> None]
    /\ slot = SomeMeasurement(1, 10)

\* The points on the border of a w x h rectangle.
Border(w, h) ==
    {p \in [x : 0..(w - 1), y : 0..(h - 1)] :
        p.x = 0 \/ p.x = w - 1 \/ p.y = 0 \/ p.y = h - 1}

\* |a - b|.
Dist(a, b) == IF a >= b THEN a - b ELSE b - a

\* The point after p when going clockwise as seen on the display (y grows
\* downwards): left along the bottom, up the left, right along the top, down
\* the right.
ClockwiseAfter(p, w, h) ==
    IF p.y = h - 1 /\ p.x > 0 THEN [x |-> p.x - 1, y |-> p.y]
    ELSE IF p.x = 0 /\ p.y > 0 THEN [x |-> 0, y |-> p.y - 1]
    ELSE IF p.y = 0 /\ p.x < w - 1 THEN [x |-> p.x + 1, y |-> 0]
    ELSE [x |-> p.x, y |-> p.y + 1]

\* C28: a PerimiterTracer over a width w >= 2 and a height h >= 2 always has a
\* next point; it starts at (w/2, h-1) and then moves left along the bottom
\* edge; every point it yields is on the border; consecutive points differ by
\* exactly 1 in exactly one coordinate and follow the clockwise order; the
\* first 2(w+h)-4 points are pairwise different and are all the border
\* points, and after exactly that many steps it is back at its start and
\* repeats.
C28_PerimiterTracer ==
    (tracer.made /\ tracer.bounds.width >= 2 /\ tracer.bounds.height >= 2) =>
        LET w == tracer.bounds.width
            h == tracer.bounds.height
            lap == 2 * (w + h) - 4
            n == Len(yielded)
            at(k) == IF k = n + 1 THEN tracer.next ELSE yielded[k]
        IN  /\ n < MaxSteps => ENABLED TracerNext
            /\ at(1) = [x |-> w \div 2, y |-> h - 1]
            /\ n >= 1 => at(2) = [x |-> w \div 2 - 1, y |-> h - 1]
            /\ \A k \in 1..(n + 1) : at(k) \in Border(w, h)
            /\ \A k \in 1..n :
                  /\ Dist(at(k).x, at(k + 1).x) + Dist(at(k).y, at(k + 1).y) = 1
                  /\ at(k + 1) = ClockwiseAfter(at(k), w, h)
            /\ \A j, k \in 1..(n + 1) : (j < k /\ k <= lap) => at(j) # at(k)
            /\ n + 1 >= lap =>
                  /\ {at(k) : k \in 1..lap} = Border(w, h)
                  /\ Cardinality(Border(w, h)) = lap
            /\ \A k \in 1..(n + 1) : k > lap => at(k) = at(k - lap)

C28_Witness ==
    /\ tracer.made
    /\ tracer.bounds = [width |-> 4, height |-> 3]
    /\ Len(yielded) = 11
    /\ yielded[1] = [x |-> 2, y |-> 2]
    /\ yielded[4] = [x |-> 0, y |-> 1]
    /\ yielded[11] = yielded[1]

\* C30, one step: the stored latitude changes only when the supplied latitude
\* is within [-90, 90), and the stored longitude changes only when the
\* supplied longitude is within [-180, 180).
C30_SettingsStep ==
    /\ webSettings'.latitude # webSettings.latitude =>
          /\ ~webCall'.latitude.nan
          /\ -90 * Unit <= webCall'.latitude.v
          /\ webCall'.latitude.v < 90 * Unit
    /\ webSettings'.longitude # webSettings.longitude =>
          /\ ~webCall'.longitude.nan
          /\ -180 * Unit <= webCall'.longitude.v
          /\ webCall'.longitude.v < 180 * Unit

\* C30: WebRenderer::update changes the latitude setting only when the
\* supplied latitude is within [-90, 90) and the longitude setting only when
\* the supplied longitude is within [-180, 180): an out-of-range longitude
\* leaves the stored longitude unchanged whatever the latitude is.
C30_SettingsFrame == [][C30_SettingsStep]_vars

----------------------------------------------------------------------------
(* Claims about the Context.                                               *)

\* Thread t is inside a call of method o.
InCall(t, o) == thOp[t] = o /\ thPc[t] # "idle"

\* Thread t returns from a call of method o in this step.
Returns(t, o) == thOp[t] = o /\ thPc[t] # "idle" /\ thPc'[t] = "idle"

\* Thread t's last call was of method o and has returned.
Returned(t, o) == thOp[t] = o /\ thPc[t] = "idle"

\* C22, the state part: once a cancel call has returned the flag is set, and
\* an is_cancelled that returned true saw a cancelled context.
C22_State ==
    /\ (\E t \in Threads : Returned(t, "cancel")) => cancelled
    /\ \A t \in Threads :
          (Returned(t, "is_cancelled") /\ thRet[t] = "true") => cancelled

\* C22, the step part: the flag never goes back to false, only a cancel call
\* sets it, and is_cancelled returns the flag as it is when it returns, on
\* whichever clone it is called.
C22_Step ==
    /\ cancelled => cancelled'
    /\ (~cancelled /\ cancelled') => \E t \in Threads : InCall(t, "cancel")
    /\ \A t \in Threads :
          Returns(t, "is_cancelled") =>
              /\ thRet'[t] = (IF cancelled THEN "true" ELSE "false")
              /\ (\E u \in Threads : Returned(u, "cancel")) => thRet'[t] = "true"

\* C22: cancellation is sticky and shared: is_cancelled returns false on a new
\* Context until cancel is first called on it or on a clone, and true on
\* every clone at every point after any cancel call has returned, under any
\* interleaving.
C22_Sticky == []C22_State /\ [][C22_Step]_vars

C22_Witness ==
    /\ Returned(1, "cancel")
    /\ Returned(2, "is_cancelled") /\ thRet[2] = "true"
    /\ Returned(3, "is_cancelled") /\ thRet[3] = "false"
    /\ cancelled

\* A cancel call has been made (it is running or the flag is already set).
CancelCalled == cancelled \/ \E u \in Threads : InCall(u, "cancel")

\* C23, the step part: wait returns only when the context is cancelled.
C23_Step == \A t \in Threads : Returns(t, "wait") => cancelled

\* C23: wait returns only when the context is cancelled, and every thread
\* inside wait returns once cancel has been called, whatever the interleaving
\* of the cancel with the waiter's check of the flag (no lost wake-up).
C23_Wait ==
    /\ [][C23_Step]_vars
    /\ \A t \in Threads :
          (InCall(t, "wait") /\ CancelCalled) ~> Returned(t, "wait")

C23_Witness ==
    /\ thOp[1] = "wait" /\ thPc[1] = "woken"
    /\ thOp[2] = "wait" /\ thPc[2] = "woken"
    /\ thOp[3] = "cancel" /\ thPc[3] = "unlock"
    /\ cancelled
    /\ blocked = {}

\* C24, the step part: wait_timeout returns only when the duration has
\* expired or the context is cancelled, and returns true exactly when the
\* context is cancelled at that moment.
C24_Step ==
    \A t \in Threads :
        Returns(t, "wait_timeout") =>
            /\ cancelled \/ thExpired[t]
            /\ thRet'[t] = "true" <=> cancelled
            /\ thRet'[t] = "false" <=> (~cancelled /\ thExpired[t])

\* C24: wait_timeout returns when the duration has expired or the context has
\* been cancelled, whichever comes first, and its result is true exactly when
\* the context is cancelled at the moment it returns (false only on a timeout
\* with no cancellation).
C24_WaitTimeout ==
    /\ [][C24_Step]_vars
    /\ \A t \in Threads : InCall(t, "wait_timeout") ~> Returned(t, "wait_timeout")

C24_Witness ==
    /\ Returned(1, "wait_timeout")
    /\ thRet[1] = "true"
    /\ thExpired[1]
    /\ Returned(2, "wait_timeout")
    /\ thRet[2] = "false"
    /\ cancelled

====
